---- MODULE Spec2Model ----
(***************************************************************************)
(* Model of the kv service: the topic broadcaster (service/topic.rs and    *)
(* service/topic_service.rs, re-exported by service/mod.rs:7-11), the      *)
(* Rocksdb storage backend (storage/rocksdb.rs) and the request pipeline   *)
(* of Service::execute with its command handlers (service/mod.rs,          *)
(* service/command_service.rs).                                            *)
(*                                                                         *)
(* The broadcaster owns three pieces of state: topics (topic -> set of     *)
(* subscriber ids), subscriptions (subscriber id -> mailbox sender) and    *)
(* the next_id counter.  Subscribe, Publish and Unsubscribe run in         *)
(* parallel on a multi-threaded executor; each map mutation is one short   *)
(* critical section and no critical section spans a mailbox send, so the   *)
(* operations are modelled as sequences of atomic steps.                   *)
(*                                                                         *)
(* The store is a map from (table, key) to bytes behind a reader-writer    *)
(* lock: set runs under the write half, get and del under the read half.   *)
(* Values are written as their serialised message and read back as text.   *)
(*                                                                         *)
(* The network layer is a ProstStream (network/stream.rs), which frames    *)
(* messages over a byte stream, and a NoiseStream (network/noise.rs),      *)
(* which encrypts a byte stream; the inner streams deliver and accept      *)
(* bytes in pieces of any size.                                            *)
(*                                                                         *)
(* The server (server_noise.rs) accepts connections in a loop in its main  *)
(* task; every connection is served through a clone of the one Service.    *)
(*                                                                         *)
(* Spec runs the broadcaster, StoreSpec the storage calls of concurrent    *)
(* callers, ServiceSpec the requests one built Service executes, RecvSpec  *)
(* and SendSpec the two halves of a ProstStream, FlushSpec its poll_flush  *)
(* one write at a time, NoiseSpec one direction of a NoiseStream,          *)
(* AcceptSpec the accept loop, CloneSpec the clones of a Service and       *)
(* DropSpec the broadcaster up to and after the drop of the Service.       *)
(***************************************************************************)
EXTENDS Integers, Sequences, FiniteSets, TLC

\* ---------------------------------------------------------------- bounds
MaxCalls    == 3     \* broadcaster calls issued in one behaviour
MaxInFlight == 2     \* calls that may be in progress at the same time
Capacity    == 2     \* mailbox capacity (128 in the program), scaled down

Topics      == {"lobby", "other"}

\* Value: the variants the broadcaster handles, integer and string
IntegerValue(n) == [kind |-> "integer", int |-> n, str |-> ""]

StringValue(s) == [kind |-> "string", int |-> 0, str |-> s]

X == StringValue("x")
Y == StringValue("y")

\* values lists a Publish may carry
ValueLists  == {<<>>, <<X>>, <<Y>>, <<X, Y>>}

Calls       == 1..MaxCalls
Ids         == 1..MaxCalls         \* ids the counter can hand out within the bound

VARIABLES
    next_id,        \* Broadcaster.next_id
    topics,         \* Broadcaster.topics        : topic -> set of ids
    subscriptions,  \* Broadcaster.subscriptions : ids whose sender is in the map
    mailbox,        \* per id, the bounded FIFO between broadcaster and subscriber
    rx,             \* per id, the receiver: "none" (not handed out), "open", "dropped", "ended"
    received,       \* per id, the responses the subscriber's stream has yielded
    call,           \* per call, its kind, position, locals and result
    db,             \* Rocksdb: the column families and the bytes stored in them
    lock,           \* Rocksdb.0, the RwLock around the DB: its writer and readers
    op,             \* per storage call, its kind, position, locals and result
    hist,           \* the writes of the storage calls, in the order they took effect
    service,        \* Service: the four interceptor chains
    last,           \* the request Service::execute handled last and what it did
    stream,         \* ProstStream.stream: the inner byte stream
    wbuf,           \* ProstStream.wbuf: the frames to write
    written,        \* ProstStream.written: the bytes of wbuf already written
    rbuf,           \* ProstStream.rbuf: the read buffer
    peer,           \* the other end of the stream's read half
    sink,           \* the messages sent into the ProstStream and the last call on it
    yielded,        \* the items poll_next yielded, in order
    inner,          \* NoiseStream.inner: the ciphertext written and not read yet
    state,          \* NoiseStream.state of both ends: the nonces of the cipher
    read_buffer,    \* NoiseStream.read_buffer: decrypted bytes not delivered yet
    plain,          \* the plaintext written and read through the NoiseStream
    main,           \* server_noise's main task: its position in the accept loop
    conn,           \* per client, its connection and what the client does with it
    clones,         \* the clones of one Service and what they point to
    alive           \* the Service and its clones are not dropped yet

topicVars == <<next_id, topics, subscriptions, mailbox, rx, received, call>>

storeVars == <<db, lock, op, hist>>

serviceVars == <<service, last>>

prostVars == <<stream, wbuf, written, rbuf, peer, sink, yielded>>

noiseVars == <<inner, state, read_buffer, plain>>

hostVars == <<main, conn, clones, alive>>

vars == <<next_id, topics, subscriptions, mailbox, rx, received, call,
          db, lock, op, hist, service, last,
          stream, wbuf, written, rbuf, peer, sink, yielded,
          inner, state, read_buffer, plain, main, conn, clones, alive>>

\* =============================================================== storage
\* storage/rocksdb.rs: one column family per table, the values kept as the
\* bytes of their serialised form.
MaxOps == 3      \* storage calls issued in one behaviour

Tables == {"t1", "t2"}
Keys   == {"admin", "k"}
Ops    == 1..MaxOps

\* Value::default(): no variant set
NoValue == [kind |-> "none", int |-> 0, str |-> ""]

BoolValue(b) == [kind |-> "bool", int |-> IF b THEN 1 ELSE 0, str |-> ""]

A == StringValue("a")
One == IntegerValue(1)

\* values a caller may store
StoreValues == {A, One}

\* the strings of the model and their UTF-8 bytes
Strings == {"", "a", "b"}

Utf8(s) == CASE s = "a" -> <<97>> [] s = "b" -> <<98>> [] OTHER -> <<>>

FromUtf8(bs) == CHOOSE s \in Strings : Utf8(s) = bs

\* field keys of the Value message: (field number * 8) + wire type
TagString  == 10
TagInteger == 24
TagBool    == 40

\* TryFrom<Value> for Vec<u8>: the field-tagged encoding of the message; a
\* string as key, length, bytes; an integer or boolean as key, varint; the
\* empty message for the default value
Encode(v) ==
    CASE v.kind = "string"  -> <<TagString, Len(Utf8(v.str))>> \o Utf8(v.str)
      [] v.kind = "integer" -> <<TagInteger, v.int>>
      [] v.kind = "bool"    -> <<TagBool, v.int>>
      [] OTHER              -> <<>>

\* char::is_control: U+0000..U+001F and U+007F..U+009F
IsControl(b) == b < 32 \/ (b >= 127 /\ b < 160)

RECURSIVE TrimStart(_)
TrimStart(bs) ==
    IF bs # <<>> /\ IsControl(Head(bs)) THEN TrimStart(Tail(bs)) ELSE bs

RECURSIVE TrimEnd(_)
TrimEnd(bs) ==
    IF bs # <<>> /\ IsControl(bs[Len(bs)]) THEN TrimEnd(SubSeq(bs, 1, Len(bs) - 1)) ELSE bs

\* From<Vec<u8>> for Value: always the String variant, holding the bytes
\* read as text with the control characters at both ends trimmed
FromBytes(data) == StringValue(FromUtf8(TrimEnd(TrimStart(data))))

\* Result<Option<Value>, KvError>
None == [ok |-> TRUE, some |-> FALSE, value |-> NoValue]

Some(v) == [ok |-> TRUE, some |-> TRUE, value |-> v]

\* a key of a column family: absent, or present with its bytes
Absent == [present |-> FALSE, data |-> <<>>]

Stored(data) == [present |-> TRUE, data |-> data]

\* DB::open_default on a fresh path: no column family but the default one
EmptyDb == [cfs |-> {}, data |-> [t \in Tables |-> [k \in Keys |-> Absent]]]

\* db.get_cf and the conversion of what it found
get_cf(S, t, k) ==
    IF S.data[t][k].present THEN Some(FromBytes(S.data[t][k].data)) ELSE None

\* Rocksdb::get
get(S, t, k) == IF t \notin S.cfs THEN None ELSE get_cf(S, t, k)

\* db.create_cf when the table has no column family yet
create_cf(S, t) == [S EXCEPT !.cfs = @ \cup {t}]

put_cf(S, t, k, data) == [S EXCEPT !.data[t][k] = Stored(data)]

delete_cf(S, t, k) == [S EXCEPT !.data[t][k] = Absent]

\* Rocksdb::set: the store afterwards and the prior value
set(S, t, k, v) ==
    [db  |-> put_cf(create_cf(S, t), t, k, Encode(v)),
     res |-> get_cf(create_cf(S, t), t, k)]

delCreating(S, t, k) ==
    [db |-> delete_cf(create_cf(S, t), t, k), res |-> get_cf(S, t, k)]

\* Rocksdb::del: the store afterwards and the removed value
del(S, t, k) ==
    IF t \notin S.cfs
    THEN [db |-> S, res |-> None]
    ELSE [db |-> delete_cf(S, t, k), res |-> get_cf(S, t, k)]

\* Rocksdb::contains
contains(S, t, k) == t \in S.cfs /\ S.data[t][k].present

\* ---------------------------------------------- storage calls in parallel
\* kind: "idle" (not issued), "get", "set", "del"
\* pc:   "locked" while the call holds the lock between its read and its
\*       write, "done" once it has returned
\* seen: the number of writes that had taken effect when the call read
\* src:  the position in hist of the write whose bytes the call read (0: none)
\* pos:  the position in hist of the call's own write (0: none)
IdleOp ==
    [kind |-> "idle", pc |-> "idle", table |-> "t1", key |-> "k", value |-> NoValue,
     res |-> None, seen |-> 0, src |-> 0, pos |-> 0]

Unlocked == [writer |-> 0, readers |-> {}]

\* calls are issued in the order of their numbers
MayCall(o) ==
    /\ op[o].kind = "idle"
    /\ \A n \in Ops : n < o => op[n].kind # "idle"

CanWriteShared(l) == l.writer = 0

\* RwLock::write: no writer and no reader holds the lock
CanWrite(l) == l.writer = 0 /\ l.readers = {}

\* RwLock::read: no writer holds the lock
CanRead(l) == l.writer = 0

RECURSIVE LastWrite(_, _, _)
\* the position of the last write to (t, k) in h, 0 if there is none
LastWrite(h, t, k) ==
    IF h = <<>> THEN 0
    ELSE IF h[Len(h)].table = t /\ h[Len(h)].key = k THEN Len(h)
    ELSE LastWrite(SubSeq(h, 1, Len(h) - 1), t, k)

\* the position of the write whose bytes are in the store now (0: key absent)
Source(t, k) ==
    IF LastWrite(hist, t, k) # 0 /\ hist[LastWrite(hist, t, k)].kind = "set"
    THEN LastWrite(hist, t, k) ELSE 0

\* get: read lock, one lookup
Get(o, t, k) ==
    /\ MayCall(o)
    /\ CanRead(lock)
    /\ op' = [op EXCEPT ![o] = [IdleOp EXCEPT !.kind = "get", !.pc = "done",
                                             !.table = t, !.key = k,
                                             !.res = get(db, t, k),
                                             !.seen = Len(hist),
                                             !.src = Source(t, k)]]
    /\ UNCHANGED <<db, lock, hist>>

\* set, lines 31-52: write lock, column family created if missing, old value read
SetBegin(o, t, k, v) ==
    /\ MayCall(o)
    /\ CanWrite(lock)
    /\ lock' = [lock EXCEPT !.writer = o]
    /\ db' = create_cf(db, t)
    /\ op' = [op EXCEPT ![o] = [IdleOp EXCEPT !.kind = "set", !.pc = "locked",
                                             !.table = t, !.key = k, !.value = v,
                                             !.res = get_cf(create_cf(db, t), t, k),
                                             !.seen = Len(hist),
                                             !.src = Source(t, k)]]
    /\ UNCHANGED hist

\* set, lines 55-62: the value serialised and put, the lock released
SetPut(o) ==
    /\ op[o].kind = "set"
    /\ op[o].pc = "locked"
    /\ db' = put_cf(db, op[o].table, op[o].key, Encode(op[o].value))
    /\ hist' = Append(hist, [op |-> o, kind |-> "set", table |-> op[o].table,
                              key |-> op[o].key, value |-> op[o].value])
    /\ lock' = [lock EXCEPT !.writer = 0]
    /\ op' = [op EXCEPT ![o].pc = "done", ![o].pos = Len(hist) + 1]

\* del, lines 80-90: read lock; a missing table returns None at once,
\* otherwise the old value is read
DelBegin(o, t, k) ==
    /\ MayCall(o)
    /\ CanRead(lock)
    /\ IF t \notin db.cfs
       THEN /\ op' = [op EXCEPT ![o] = [IdleOp EXCEPT !.kind = "del", !.pc = "done",
                                                    !.table = t, !.key = k,
                                                    !.seen = Len(hist)]]
            /\ UNCHANGED lock
       ELSE /\ op' = [op EXCEPT ![o] = [IdleOp EXCEPT !.kind = "del", !.pc = "locked",
                                                    !.table = t, !.key = k,
                                                    !.res = get_cf(db, t, k),
                                                    !.seen = Len(hist),
                                                    !.src = Source(t, k)]]
            /\ lock' = [lock EXCEPT !.readers = @ \cup {o}]
    /\ UNCHANGED <<db, hist>>

\* del, lines 93-96: the key deleted, the lock released
DelEnd(o) ==
    /\ op[o].kind = "del"
    /\ op[o].pc = "locked"
    /\ db' = delete_cf(db, op[o].table, op[o].key)
    /\ hist' = Append(hist, [op |-> o, kind |-> "del", table |-> op[o].table,
                              key |-> op[o].key, value |-> NoValue])
    /\ lock' = [lock EXCEPT !.readers = @ \ {o}]
    /\ op' = [op EXCEPT ![o].pc = "done", ![o].pos = Len(hist) + 1]

StoreInit ==
    /\ db = EmptyDb
    /\ lock = Unlocked
    /\ op = [o \in Ops |-> IdleOp]
    /\ hist = <<>>

\* =============================================================== service
\* service/mod.rs and service/command_service.rs: the unary command
\* handlers over the storage, the two dispatchers and Service::execute
\* with its interceptor chains.

\* tables the requests of the model write to; the other table is only read
WriteTables == {"t1"}

\* rocksdb iterates a column family in key order
KeyOrder == <<"admin", "k">>

Kvpair(k, v) == [key |-> k, value |-> v]

KeyLists  == {<<>>, <<"k">>, <<"k", "admin">>}
PairLists == {<<>>, <<Kvpair("k", A)>>, <<Kvpair("k", One), Kvpair("k", A)>>}

\* ------------------------------------------------------------- requests
\* CommandRequest: cmd names the variant of request_data ("none": no data)
NoData ==
    [cmd |-> "none", table |-> "t1", key |-> "k", has_pair |-> FALSE, value |-> NoValue,
     keys |-> <<>>, pairs |-> <<>>, topic |-> "lobby", id |-> 0, values |-> <<>>]

new_hget(t, k) == [NoData EXCEPT !.cmd = "Hget", !.table = t, !.key = k]

new_hset(t, k, v) ==
    [NoData EXCEPT !.cmd = "Hset", !.table = t, !.key = k, !.has_pair = TRUE, !.value = v]

\* an Hset whose pair is absent
HsetNoPair(t) == [NoData EXCEPT !.cmd = "Hset", !.table = t]

new_hdel(t, k) == [NoData EXCEPT !.cmd = "Hdel", !.table = t, !.key = k]

new_hexist(t, k) == [NoData EXCEPT !.cmd = "Hexist", !.table = t, !.key = k]

new_hgetall(t) == [NoData EXCEPT !.cmd = "Hgetall", !.table = t]

new_hmget(t, ks) == [NoData EXCEPT !.cmd = "Hmget", !.table = t, !.keys = ks]

new_hmset(t, ps) == [NoData EXCEPT !.cmd = "Hmset", !.table = t, !.pairs = ps]

new_hmdel(t, ks) == [NoData EXCEPT !.cmd = "Hmdel", !.table = t, !.keys = ks]

new_hmexist(t, ks) == [NoData EXCEPT !.cmd = "Hmexist", !.table = t, !.keys = ks]

new_publish(t, vals) == [NoData EXCEPT !.cmd = "Publish", !.topic = t, !.values = vals]

new_subscribe(t) == [NoData EXCEPT !.cmd = "Subscribe", !.topic = t]

new_unsubscribe(t, id) == [NoData EXCEPT !.cmd = "Unsubscribe", !.topic = t, !.id = id]

UnaryCommands ==
    {"Hget", "Hset", "Hgetall", "Hmget", "Hmset", "Hdel", "Hmdel", "Hexist", "Hmexist"}

StreamingCommands == {"Publish", "Subscribe", "Unsubscribe"}

Requests ==
    {NoData}
    \cup {new_hget(t, k) : t \in Tables, k \in Keys}
    \cup {new_hset(t, k, v) : t \in WriteTables, k \in Keys, v \in StoreValues}
    \cup {HsetNoPair(t) : t \in WriteTables}
    \cup {new_hdel(t, k) : t \in Tables, k \in Keys}
    \cup {new_hexist(t, k) : t \in Tables, k \in Keys}
    \cup {new_hgetall(t) : t \in Tables}
    \cup {new_hmget(t, ks) : t \in Tables, ks \in KeyLists}
    \cup {new_hmset(t, ps) : t \in WriteTables, ps \in PairLists}
    \cup {new_hmdel(t, ks) : t \in WriteTables, ks \in KeyLists}
    \cup {new_hmexist(t, ks) : t \in WriteTables, ks \in KeyLists}
    \cup {new_publish(t, <<X>>) : t \in Topics}
    \cup {new_subscribe(t) : t \in Topics}
    \cup {new_unsubscribe(t, 1) : t \in Topics}

\* ------------------------------------------------------------ responses
\* CommandResponse::default(): the sentinel of Service::execute
DefaultResponse == [status |-> 0, message |-> <<>>, values |-> <<>>, pairs |-> <<>>]

\* KvError, with the text of its Display as a list of parts
NotFound(t, k) ==
    [kind |-> "NotFound", text |-> <<"Not found for table: ", t, ", key: ", k>>]

InvalidCommand(why) ==
    [kind |-> "InvalidCommand", text |-> <<"Command is invalid: ", why>>]

Internal(why) == [kind |-> "Internal", text |-> <<"Internal error: ", why>>]

PermissionDenied(why) ==
    [kind |-> "PermissionDenied", text |-> <<"permission denied: ", why>>]

\* From<KvError> for CommandResponse: the status of the error kind
StatusOf(e) ==
    CASE e.kind = "NotFound"         -> 404
      [] e.kind = "InvalidCommand"   -> 400
      [] e.kind = "PermissionDenied" -> 403
      [] OTHER                       -> 500

FromKvError(e) ==
    [status |-> StatusOf(e), message |-> e.text, values |-> <<>>, pairs |-> <<>>]

\* From<Value> for CommandResponse
FromValue(v) == [status |-> 200, message |-> <<>>, values |-> <<v>>, pairs |-> <<>>]

\* From<Vec<Value>> for CommandResponse
FromValues(vs) == [status |-> 200, message |-> <<>>, values |-> vs, pairs |-> <<>>]

\* From<Vec<Kvpair>> for CommandResponse
FromPairs(ps) == [status |-> 200, message |-> <<>>, values |-> <<>>, pairs |-> ps]

\* From<KvError> for Value, used by Hmdel and Hmexist: a value made from the error
ValueFromKvError(e) == [kind |-> "error", int |-> StatusOf(e), str |-> ""]

\* ------------------------------------------------- storage, as the trait
\* Err(KvError::Internal): the backend reports a failure
Err == [ok |-> FALSE, some |-> FALSE, value |-> NoValue]

StorageFailure == Internal("storage")

\* Storage::get, set, del, contains and get_iter through the trait object;
\* f: the backend fails the calls of this request
Storage_get(S, t, k, f) == IF f THEN Err ELSE get(S, t, k)

Storage_set(S, t, k, v, f) == IF f THEN [db |-> S, res |-> Err] ELSE set(S, t, k, v)

Storage_del(S, t, k, f) == IF f THEN [db |-> S, res |-> Err] ELSE del(S, t, k)

RECURSIVE PairsFrom(_, _, _)
PairsFrom(S, t, ks) ==
    IF ks = <<>> THEN <<>>
    ELSE (IF S.data[t][Head(ks)].present
          THEN <<Kvpair(Head(ks), FromBytes(S.data[t][Head(ks)].data))>>
          ELSE <<>>) \o PairsFrom(S, t, Tail(ks))

\* Rocksdb::get_all and get_iter
get_all(S, t) == IF t \notin S.cfs THEN <<>> ELSE PairsFrom(S, t, KeyOrder)

\* ------------------------------------------------------ command handlers
\* each handler gives the store afterwards, the response, and whether it
\* panicked instead of returning
Returns(S, r) == [db |-> S, res |-> r, panic |-> FALSE]

Panics(S) == [db |-> S, res |-> DefaultResponse, panic |-> TRUE]

Hget(req, S, f) ==
    LET r == Storage_get(S, req.table, req.key, f)
    IN  Returns(S, IF r.ok /\ r.some THEN FromValue(r.value)
                   ELSE IF r.ok THEN FromKvError(NotFound(req.table, req.key))
                   ELSE FromKvError(StorageFailure))

Hgetall(req, S, f) ==
    IF f THEN Panics(S) ELSE Returns(S, FromPairs(get_all(S, req.table)))

\* the response of Hset for the result of Storage::set
HsetResponse(r) ==
    IF r.ok /\ r.some THEN FromValue(r.value)
    ELSE IF r.ok THEN FromValue(NoValue)
    ELSE FromKvError(StorageFailure)

HsetDefaultWithoutPair(req, S, f) ==
    IF req.has_pair
    THEN [db |-> Storage_set(S, req.table, req.key, req.value, f).db,
          res |-> HsetResponse(Storage_set(S, req.table, req.key, req.value, f).res),
          panic |-> FALSE]
    ELSE [db |-> S, res |-> DefaultResponse, panic |-> FALSE]

Hset(req, S, f) ==
    IF req.has_pair
    THEN LET w == Storage_set(S, req.table, req.key, req.value, f)
         IN  Returns(w.db, HsetResponse(w.res))
    ELSE Returns(S, FromValue(NoValue))

RECURSIVE HmgetValues(_, _, _, _)
HmgetValues(S, t, ks, f) ==
    IF ks = <<>> THEN <<>>
    ELSE LET r == Storage_get(S, t, Head(ks), f)
         IN  <<IF r.ok /\ r.some THEN r.value ELSE NoValue>> \o HmgetValues(S, t, Tail(ks), f)

Hmget(req, S, f) == Returns(S, FromValues(HmgetValues(S, req.table, req.keys, f)))

RECURSIVE HmsetFold(_, _, _, _)
\* the pairs set one after the other: the store afterwards and the values
HmsetFold(S, t, ps, f) ==
    IF ps = <<>> THEN [db |-> S, values |-> <<>>]
    ELSE LET w    == Storage_set(S, t, Head(ps).key, Head(ps).value, f)
             rest == HmsetFold(w.db, t, Tail(ps), f)
         IN  [db |-> rest.db,
              values |-> <<IF w.res.ok /\ w.res.some THEN w.res.value ELSE NoValue>>
                         \o rest.values]

Hmset(req, S, f) ==
    Returns(HmsetFold(S, req.table, req.pairs, f).db,
            FromValues(HmsetFold(S, req.table, req.pairs, f).values))

HdelKeep(req, S, f) == Hget(req, S, f)

Hdel(req, S, f) ==
    LET w == Storage_del(S, req.table, req.key, f)
    IN  Returns(w.db, IF w.res.ok /\ w.res.some THEN FromValue(w.res.value)
                      ELSE IF w.res.ok THEN FromKvError(NotFound(req.table, req.key))
                      ELSE FromKvError(StorageFailure))

RECURSIVE HmdelFold(_, _, _, _)
HmdelFold(S, t, ks, f) ==
    IF ks = <<>> THEN [db |-> S, values |-> <<>>]
    ELSE LET w    == Storage_del(S, t, Head(ks), f)
             rest == HmdelFold(w.db, t, Tail(ks), f)
         IN  [db |-> rest.db,
              values |-> <<IF w.res.ok /\ w.res.some THEN w.res.value
                           ELSE IF w.res.ok THEN ValueFromKvError(NotFound(t, Head(ks)))
                           ELSE ValueFromKvError(StorageFailure)>> \o rest.values]

Hmdel(req, S, f) ==
    Returns(HmdelFold(S, req.table, req.keys, f).db,
            FromValues(HmdelFold(S, req.table, req.keys, f).values))

Hexist(req, S, f) ==
    Returns(S, IF f THEN FromKvError(StorageFailure)
               ELSE FromValue(BoolValue(contains(S, req.table, req.key))))

HmexistValues(S, t, ks, f) ==
    [i \in 1..Len(ks) |-> IF f THEN ValueFromKvError(StorageFailure)
                          ELSE BoolValue(contains(S, t, ks[i]))]

Hmexist(req, S, f) == Returns(S, FromValues(HmexistValues(S, req.table, req.keys, f)))

\* ---------------------------------------------------------- dispatchers
\* the variants the match of dispatch hands to their handlers
Dispatched == {"Hget", "Hgetall", "Hset", "Hmset", "Hdel", "Hmdel", "Hexist", "Hmexist"}

\* dispatch: a handled variant runs its handler, a request without data is
\* invalid, every other variant gives the default response
dispatch(req, S, f) ==
    IF req.cmd \in Dispatched
    THEN CASE req.cmd = "Hget"    -> Hget(req, S, f)
           [] req.cmd = "Hgetall" -> Hgetall(req, S, f)
           [] req.cmd = "Hset"    -> Hset(req, S, f)
           [] req.cmd = "Hmget"   -> Hmget(req, S, f)
           [] req.cmd = "Hmset"   -> Hmset(req, S, f)
           [] req.cmd = "Hdel"    -> Hdel(req, S, f)
           [] req.cmd = "Hmdel"   -> Hmdel(req, S, f)
           [] req.cmd = "Hexist"  -> Hexist(req, S, f)
           [] OTHER               -> Hmexist(req, S, f)
    ELSE IF req.cmd = "none"
    THEN Returns(S, FromKvError(InvalidCommand("Request has no data")))
    ELSE Returns(S, DefaultResponse)

\* dispatch_stream: the three topic commands go to the broadcaster, every
\* other variant is unreachable!()
dispatch_stream(req) == [panic |-> req.cmd \notin StreamingCommands]

\* ---------------------------------------------------------- interceptors
\* Option<CommandResponse>
NoResponse == [some |-> FALSE, res |-> DefaultResponse]

SomeResponse(r) == [some |-> TRUE, res |-> r]

Denied == FromKvError(PermissionDenied("Cannot access admin key"))

\* an on_received interceptor: "none" returns None, "check_special_keys"
\* denies Hget and Hset on the key admin
OnReceived(h, req) ==
    IF h = "check_special_keys" /\ req.key = "admin"
       /\ (req.cmd = "Hget" \/ (req.cmd = "Hset" /\ req.has_pair))
    THEN SomeResponse(Denied)
    ELSE NoResponse

\* an on_executed interceptor: "none" returns None, "some" a response of its own
OnExecuted(h, res) == IF h = "some" THEN SomeResponse(Denied) ELSE NoResponse

\* an on_before_send interceptor: what it returns, and the response as it
\* leaves it ("created" sets the status to 201)
OnBeforeSend(h, res) ==
    [ret |-> IF h = "some" THEN SomeResponse(Denied) ELSE NoResponse,
     res |-> IF h = "created" THEN [res EXCEPT !.status = 201] ELSE res]

RECURSIVE Notify(_, _, _)
\* Notify::notify from the i-th interceptor on: the interceptors run, up
\* to the first that returns Some, and what notify returns
Notify(fs, res, i) ==
    IF i > Len(fs) THEN [ran |-> <<>>, ret |-> NoResponse]
    ELSE IF OnExecuted(fs[i], res).some
    THEN [ran |-> <<i>>, ret |-> OnExecuted(fs[i], res)]
    ELSE [ran |-> <<i>> \o Notify(fs, res, i + 1).ran, ret |-> Notify(fs, res, i + 1).ret]

RECURSIVE NotifyMut(_, _, _)
\* NotifyMut::notify: as Notify, with the response as the interceptors left it
NotifyMut(fs, res, i) ==
    IF i > Len(fs) THEN [ran |-> <<>>, ret |-> NoResponse, res |-> res]
    ELSE IF OnBeforeSend(fs[i], res).ret.some
    THEN [ran |-> <<i>>, ret |-> OnBeforeSend(fs[i], res).ret, res |-> OnBeforeSend(fs[i], res).res]
    ELSE LET rest == NotifyMut(fs, OnBeforeSend(fs[i], res).res, i + 1)
         IN  [ran |-> <<i>> \o rest.ran, ret |-> rest.ret, res |-> rest.res]

\* the interceptors of a chain that notify ran, in order: the chain, the
\* position in it, and whether the interceptor returned Some
Ran(chain, n) ==
    [j \in 1..Len(n.ran) |-> [chain |-> chain, i |-> n.ran[j],
                              some |-> n.ret.some /\ j = Len(n.ran)]]

\* ----------------------------------------------------------- the service
\* Service::new and the fn_received, fn_executed, fn_before_send and
\* fn_after_send calls that built the service
Service(r, e, b, a) ==
    [on_received |-> r, on_executed |-> e, on_before_send |-> b, on_after_send |-> a]

Services ==
    { Service(<<>>, <<>>, <<>>, <<>>),
      Service(<<"none", "none">>, <<"none">>, <<"created">>, <<"none">>),
      Service(<<"check_special_keys">>, <<>>, <<>>, <<>>),
      Service(<<"none", "check_special_keys">>, <<"some", "none">>, <<"created">>, <<"none">>),
      Service(<<>>, <<"none">>, <<"some", "created">>, <<>>),
      Service(<<>>, <<>>, <<"created", "some">>, <<"none">>),
      Service(<<"none">>, <<"none", "none">>, <<"none", "created">>, <<"none">>) }

\* what Service::execute did with the request it handled last
\* route:    "none" (no request yet), "unary", "streaming", "panic"
\* executed: dispatch ran the handler of the command on the storage
\* computed: the response dispatch returned
\* streamed: dispatch_stream was called
\* stream:   the stream execute returned: "once" (stream::once of the
\*           response in out) or "broadcaster" (the stream of the topic
\*           command, as dispatch_stream returned it)
\* ran:      the interceptors invoked, in order
NoRequest ==
    [req |-> NoData, fault |-> FALSE, route |-> "none", executed |-> FALSE,
     computed |-> DefaultResponse, streamed |-> FALSE, stream |-> "none",
     out |-> <<>>, ran |-> <<>>]

IsSentinelNever(res) == FALSE

\* the test of execute for "not a unary command"
IsSentinel(res) == res = DefaultResponse

\* Service::execute, as the store afterwards and the record of what it did
execute(req, f, S) ==
    LET d == dispatch(req, S, f)
        s == dispatch_stream(req)
        e == Notify(service.on_executed, d.res, 1)
        b == NotifyMut(service.on_before_send, d.res, 1)
        base == [NoRequest EXCEPT !.req = req, !.fault = f, !.computed = d.res,
                                  !.executed = req.cmd \in Dispatched]
    IN  [db   |-> d.db,
         last |-> IF d.panic THEN [base EXCEPT !.route = "panic"]
                  ELSE IF IsSentinel(d.res)
                  THEN IF s.panic
                       THEN [base EXCEPT !.route = "panic", !.streamed = TRUE]
                       ELSE [base EXCEPT !.route = "streaming", !.streamed = TRUE,
                                         !.stream = "broadcaster"]
                  ELSE [base EXCEPT !.route = "unary", !.stream = "once",
                                    !.out = <<b.res>>,
                                    !.ran = Ran("on_executed", e)
                                            \o Ran("on_before_send", b)]]

RECURSIVE NotifyReceived(_, _, _)
\* what a notify over the on_received chain gives for a request
NotifyReceived(fs, req, i) ==
    IF i > Len(fs) THEN NoResponse
    ELSE IF OnReceived(fs[i], req).some THEN OnReceived(fs[i], req)
    ELSE NotifyReceived(fs, req, i + 1)

ExecuteReceivedFirst(req, f) ==
    /\ IF NotifyReceived(service.on_received, req, 1).some
       THEN /\ db' = db
            /\ last' = [NoRequest EXCEPT
                          !.req = req, !.fault = f, !.route = "unary", !.stream = "once",
                          !.out = <<NotifyReceived(service.on_received, req, 1).res>>]
       ELSE /\ db' = execute(req, f, db).db
            /\ last' = execute(req, f, db).last
    /\ UNCHANGED <<service, lock, op, hist>>

\* one request handled by Service::execute
Execute(req, f) ==
    /\ db' = execute(req, f, db).db
    /\ last' = execute(req, f, db).last
    /\ UNCHANGED <<service, lock, op, hist>>

ServiceInit ==
    /\ service = Service(<<>>, <<>>, <<>>, <<>>)
    /\ last = NoRequest

\* =============================================================== network
\* network/stream.rs: ProstStream, a stream and a sink of messages over a
\* byte stream, with the frames of network/frame.rs.

MaxFrames == 2      \* messages written to one direction of a stream
MaxItems  == 3      \* items a stream is polled for

\* the messages of the model and their serialised bytes
Msgs == {"m1", "m2"}

EncodeMsg(m) == IF m = "m1" THEN <<7>> ELSE <<8, 9>>

\* Message::decode: the message of the bytes, or a decode error
DecodeMsg(bs) ==
    IF \E m \in Msgs : EncodeMsg(m) = bs
    THEN [ok |-> TRUE, msg |-> CHOOSE m \in Msgs : EncodeMsg(m) = bs]
    ELSE [ok |-> FALSE, msg |-> "none"]

\* the frame header: 4 big-endian bytes, the top bit the compression flag,
\* the other 31 bits the length of the payload
LEN_LEN == 4

Header(len, compressed) ==
    <<((len \div 16777216) % 128) + (IF compressed THEN 128 ELSE 0),
      (len \div 65536) % 256, (len \div 256) % 256, len % 256>>

decode_header(h) ==
    [len |-> (((h[1] % 128) * 256 + h[2]) * 256 + h[3]) * 256 + h[4],
     compressed |-> h[1] >= 128]

\* FrameCoder::encode_frame: the header and the serialised message; the
\* messages of the model are below the compression threshold
encode_frame(m) == Header(Len(EncodeMsg(m)), FALSE) \o EncodeMsg(m)

\* FrameCoder::decode_frame on a buffer holding one frame: the header is
\* taken, then the payload, which is decoded; no payload of the model is
\* compressed data, so a frame flagged as compressed fails to decompress
decode_frame(buf) ==
    IF decode_header(SubSeq(buf, 1, LEN_LEN)).compressed
    THEN [ok |-> FALSE, msg |-> "none"]
    ELSE DecodeMsg(SubSeq(buf, LEN_LEN + 1, Len(buf)))

RECURSIVE Frames(_)
\* the bytes of the frames of a list of messages
Frames(ms) == IF ms = <<>> THEN <<>> ELSE encode_frame(Head(ms)) \o Frames(Tail(ms))

\* the inner stream S of a ProstStream: inb the bytes that arrived and were
\* not read yet, out the bytes its poll_write accepted, shut once
\* poll_shutdown completed, full once the writer has no room left and its
\* poll_write answers Ready(Ok(0))
NewStream == [inb |-> <<>>, out |-> <<>>, shut |-> FALSE, full |-> FALSE]

\* the peer of the read half: the messages it wrote, the bytes of them
\* still on their way, and whether it closed its sending half
NoPeer == [sent |-> <<>>, flight |-> <<>>, closed |-> FALSE]

\* the sending side as its caller sees it: the messages given to
\* start_send, the last call and what it returned
NoSink == [sends |-> <<>>, last |-> "none", ret |-> "none"]

\* the read of the inner stream reports end of file
AtEof == peer.closed /\ peer.flight = <<>>

\* read_frame polled once on a fresh future: the header is read, then the
\* payload; with fewer bytes than it needs the future has taken what there
\* was and is Pending, or fails when the stream is at its end
read_frame(inb, eof) ==
    LET need == IF Len(inb) < LEN_LEN THEN LEN_LEN
                ELSE LEN_LEN + decode_header(SubSeq(inb, 1, LEN_LEN)).len
    IN  IF Len(inb) >= need
        THEN [ret |-> "ok", frame |-> SubSeq(inb, 1, need),
              inb |-> SubSeq(inb, need + 1, Len(inb))]
        ELSE [ret |-> IF eof THEN "err" ELSE "pending", frame |-> <<>>, inb |-> <<>>]

\* an item of the message stream; eof: the read met the end of the stream
\* before the first byte of a frame
Item(kind, m, eof) == [kind |-> kind, msg |-> m, eof |-> eof]

\* ---- the peer and the transport of the read half
PeerSend(m) ==
    /\ ~peer.closed
    /\ Len(peer.sent) < MaxFrames
    /\ peer' = [peer EXCEPT !.sent = Append(@, m), !.flight = @ \o encode_frame(m)]
    /\ UNCHANGED <<stream, rbuf, wbuf, written, sink, yielded>>

\* the next n bytes arrive, whatever the frame boundaries
Arrive(n) ==
    /\ n \in 1..Len(peer.flight)
    /\ stream' = [stream EXCEPT !.inb = @ \o SubSeq(peer.flight, 1, n)]
    /\ peer' = [peer EXCEPT !.flight = SubSeq(@, n + 1, Len(@))]
    /\ UNCHANGED <<rbuf, wbuf, written, sink, yielded>>

\* the peer closes its sending half, after a whole frame
PeerClose ==
    /\ ~peer.closed
    /\ peer' = [peer EXCEPT !.closed = TRUE]
    /\ UNCHANGED <<stream, rbuf, wbuf, written, sink, yielded>>

\* Stream::poll_next, lines 49-59: a new read_frame future over the inner
\* stream and an empty buffer is polled once and dropped; Pending and
\* errors return at the ready!(..?), a frame read is decoded and yielded
poll_next ==
    LET r == read_frame(stream.inb, AtEof)
        d == decode_frame(r.frame)
        eof == AtEof /\ stream.inb = <<>>
    IN  /\ rbuf = <<>>
        /\ Len(yielded) < MaxItems
        /\ stream' = [stream EXCEPT !.inb = r.inb]
        /\ rbuf' = <<>>
        /\ yielded' = CASE r.ret = "pending" -> yielded
                      [] r.ret = "err"     -> Append(yielded, Item("err", "none", eof))
                      [] OTHER             -> Append(yielded, IF d.ok THEN Item("msg", d.msg, FALSE)
                                                             ELSE Item("err", "none", FALSE))
        /\ UNCHANGED <<peer, wbuf, written, sink>>

\* ---- the sink
\* &wbuf[written..]
UnwrittenAll(buf, w) == buf

Unwritten(buf, w) == SubSeq(buf, w + 1, Len(buf))

\* Sink::start_send, lines 74-79: the frame of the item appended to wbuf
start_send(m) ==
    /\ ~stream.shut
    /\ Len(sink.sends) < MaxFrames
    /\ wbuf' = wbuf \o encode_frame(m)
    /\ sink' = [sends |-> Append(sink.sends, m), last |-> "start_send", ret |-> "ok"]
    /\ UNCHANGED <<stream, rbuf, written, peer, yielded>>

\* Sink::poll_flush, lines 81-97, called once: its poll_write calls accept
\* k bytes in all, in pieces of any size; with bytes left the last
\* poll_write was Pending, otherwise the buffer is cleared and the inner
\* poll_flush is Ready (flushed) or Pending
poll_flush(k, flushed) ==
    LET left == Unwritten(wbuf, written)
        done == written + k = Len(wbuf)
    IN  [out     |-> stream.out \o SubSeq(left, 1, k),
         wbuf    |-> IF done THEN <<>> ELSE wbuf,
         written |-> IF done THEN 0 ELSE written + k,
         ret     |-> IF done /\ flushed THEN "ok" ELSE "pending"]

PollFlush(k, flushed) ==
    /\ ~stream.shut
    /\ k \in 0..(Len(wbuf) - written)
    /\ stream' = [stream EXCEPT !.out = poll_flush(k, flushed).out]
    /\ wbuf' = poll_flush(k, flushed).wbuf
    /\ written' = poll_flush(k, flushed).written
    /\ sink' = [sink EXCEPT !.last = "poll_flush", !.ret = poll_flush(k, flushed).ret]
    /\ UNCHANGED <<rbuf, peer, yielded>>

\* Sink::poll_close, lines 99-106: poll_flush, then the inner poll_shutdown,
\* which is Ready (shut) or Pending
PollClose(k, flushed, shut) ==
    /\ ~stream.shut
    /\ k \in 0..(Len(wbuf) - written)
    /\ stream' = [stream EXCEPT !.out = poll_flush(k, flushed).out,
                                !.shut = poll_flush(k, flushed).ret = "ok" /\ shut]
    /\ wbuf' = poll_flush(k, flushed).wbuf
    /\ written' = poll_flush(k, flushed).written
    /\ sink' = [sink EXCEPT !.last = "poll_close",
                            !.ret = IF poll_flush(k, flushed).ret = "ok" /\ shut
                                    THEN "ok" ELSE "pending"]
    /\ UNCHANGED <<rbuf, peer, yielded>>

\* ---- poll_flush, one poll_write at a time
\* the call of poll_flush begins; sink.ret is "running" until it returns
FlushBegin ==
    /\ ~stream.shut
    /\ sink.ret # "running"
    /\ sink' = [sink EXCEPT !.last = "poll_flush", !.ret = "running"]
    /\ UNCHANGED <<stream, wbuf, written, rbuf, peer, yielded>>

\* what one poll_write of the inner stream can answer when offered n bytes
WriteOutcomes(n) ==
    IF stream.full THEN {[kind |-> "ok", n |-> 0]}
    ELSE {[kind |-> "pending", n |-> 0], [kind |-> "err", n |-> 0]}
         \cup {[kind |-> "ok", n |-> i] : i \in 1..n}

\* one turn of the while loop, lines 84-87: bytes are left, poll_write is
\* called; Pending and Err return from poll_flush (ready! and ?), Ok(n)
\* advances written and the loop goes on
FlushWrite(r) ==
    /\ sink.ret = "running"
    /\ written # Len(wbuf)
    /\ r \in WriteOutcomes(Len(wbuf) - written)
    /\ stream' = [stream EXCEPT !.out = @ \o SubSeq(Unwritten(wbuf, written), 1, r.n)]
    /\ written' = written + r.n
    /\ sink' = [sink EXCEPT !.ret = IF r.kind = "ok" THEN "running" ELSE r.kind]
    /\ UNCHANGED <<wbuf, rbuf, peer, yielded>>

\* the loop left, lines 90-96: the buffer cleared and the inner poll_flush
FlushEnd(flushed) ==
    /\ sink.ret = "running"
    /\ written = Len(wbuf)
    /\ wbuf' = <<>>
    /\ written' = 0
    /\ sink' = [sink EXCEPT !.ret = IF flushed THEN "ok" ELSE "pending"]
    /\ UNCHANGED <<stream, rbuf, peer, yielded>>

\* the inner writer runs out of room (a fixed buffer filled, a pipe whose
\* reader is gone): from now on its poll_write accepts nothing
InnerFull ==
    /\ ~stream.full
    /\ stream' = [stream EXCEPT !.full = TRUE]
    /\ UNCHANGED <<wbuf, written, rbuf, peer, sink, yielded>>

\* ProstStream::new, lines 28-37
StreamInit ==
    /\ stream = NewStream
    /\ wbuf = <<>>
    /\ written = 0
    /\ rbuf = <<>>
    /\ peer = NoPeer
    /\ sink = NoSink
    /\ yielded = <<>>

\* ----------------------------------------------------------------- noise
\* network/noise.rs: NoiseStream, the encrypted stream over an inner byte
\* stream; one direction of it, from the writing end to the reading end.

MaxWrites == 3      \* poll_write calls that reach the cipher
BufLen    == 4      \* length of encrypt_buffer and decrypt_buffer (4096 in the program), scaled down
TagLen    == 1      \* length of the authentication tag (16 in the protocol), scaled down

\* the buffers the writer passes to poll_write
Plaintexts == {<<1>>, <<2, 3>>, <<4, 5, 6, 7>>}

\* the ciphertext of the message encrypted under nonce n: one cell per
\* byte, the tag at the end; a cell tells the message it belongs to, its
\* place in it and the length of the message
Cipher(n, pt) ==
    [i \in 1..(Len(pt) + TagLen) |->
        [n |-> n, i |-> i, of |-> Len(pt) + TagLen, b |-> IF i <= Len(pt) THEN pt[i] ELSE 0]]

\* TransportState::write_message into encrypt_buffer: an error when the
\* ciphertext does not fit, otherwise the ciphertext under the next nonce
write_message(n, pt) ==
    IF Len(pt) + TagLen > BufLen THEN [ok |-> FALSE, out |-> <<>>, n |-> n]
    ELSE [ok |-> TRUE, out |-> Cipher(n, pt), n |-> n + 1]

\* TransportState::read_message: the bytes authenticate only when they are
\* one whole ciphertext under the nonce the reader expects
read_message(n, bytes) ==
    IF /\ bytes # <<>>
       /\ Len(bytes) = bytes[1].of
       /\ \A j \in 1..Len(bytes) : bytes[j].n = n /\ bytes[j].i = j /\ bytes[j].of = Len(bytes)
    THEN [ok |-> TRUE, n |-> n + 1,
          out |-> [j \in 1..(Len(bytes) - TagLen) |-> bytes[j].b]]
    ELSE [ok |-> FALSE, n |-> n, out |-> <<>>]

\* what the two ends have seen: the bytes of the writes that returned
\* Ok(n), the bytes the reads delivered, the first error a call returned,
\* and the buffer of a write that returned Pending and is to be repeated
NoTraffic == [written |-> <<>>, read |-> <<>>, failed |-> "none", retry |-> <<>>]

\* AsyncWrite::poll_write, lines 129-152: the buffer is encrypted, then the
\* inner poll_write is called once; it is Pending (k < 0) or accepts the
\* first k bytes of the ciphertext, and any Ready(Ok(_)) is answered with
\* Ok(buf.len())
poll_write(pt, k) ==
    LET w == write_message(state.send, pt)
    IN  /\ state.send < MaxWrites
        /\ plain.retry # <<>> => pt = plain.retry
        /\ k \in {-1} \cup 1..(Len(pt) + TagLen)
        /\ state' = [state EXCEPT !.send = w.n]
        /\ inner' = IF w.ok /\ k > 0 THEN inner \o SubSeq(w.out, 1, k) ELSE inner
        /\ plain' = IF ~w.ok
                    THEN [plain EXCEPT !.retry = <<>>,
                                       !.failed = IF @ = "none" THEN "encryption" ELSE @]
                    ELSE IF k < 0 THEN [plain EXCEPT !.retry = pt]
                    ELSE [plain EXCEPT !.retry = <<>>, !.written = @ \o pt]
        /\ UNCHANGED read_buffer

\* the first bytes of the read buffer, as many as the caller's buffer takes
Taken(rb, room) == SubSeq(rb, 1, IF Len(rb) < room THEN Len(rb) ELSE room)

Kept(rb, room) == SubSeq(rb, (IF Len(rb) < room THEN Len(rb) ELSE room) + 1, Len(rb))

\* AsyncRead::poll_read, lines 69-125, with room bytes free in the caller's
\* buffer: decrypted bytes left over are served first; otherwise the inner
\* poll_read gives the next n bytes, which are decrypted as one message
poll_read(n, room) ==
    IF read_buffer # <<>>
    THEN /\ plain' = [plain EXCEPT !.read = @ \o Taken(read_buffer, room)]
         /\ read_buffer' = Kept(read_buffer, room)
         /\ UNCHANGED <<inner, state>>
    ELSE LET r == read_message(state.recv, SubSeq(inner, 1, n))
         IN  /\ n \in 1..Len(inner)
             /\ n <= BufLen
             /\ inner' = SubSeq(inner, n + 1, Len(inner))
             /\ state' = [state EXCEPT !.recv = r.n]
             /\ read_buffer' = IF r.ok THEN Kept(r.out, room) ELSE read_buffer
             /\ plain' = IF r.ok THEN [plain EXCEPT !.read = @ \o Taken(r.out, room)]
                         ELSE [plain EXCEPT !.failed = IF @ = "none" THEN "decryption" ELSE @]

\* NoiseStream::new on both ends, after the handshake, lines 57-66
NoiseInit ==
    /\ inner = <<>>
    /\ state = [send |-> 0, recv |-> 0]
    /\ read_buffer = <<>>
    /\ plain = NoTraffic

\* ================================================================ server
\* server_noise.rs: main binds the listener and runs the accept loop; each
\* turn accepts one connection, runs the Noise handshake on it and spawns
\* the task that serves it.
MaxClients == 3

Clients == 1..MaxClients

\* what a client does once connected: "good" completes the handshake, "bad"
\* makes it fail (a message snow rejects, a reset), "stall" sends nothing
Behaviours == {"good", "bad", "stall"}

\* main: pc is "accept" (at listener.accept().await), "handshake" (at
\* noise_acceptor.accept(stream).await) or "exited" (main returned); cur is
\* the connection in the handshake; backlog holds the connections the
\* listener has and the loop has not accepted yet
NewMain == [pc |-> "accept", cur |-> 0, backlog |-> <<>>]

\* a connection: "none" (not made), "queued", "handshake", "served" (its
\* task is spawned), "failed" (its handshake failed), "closed" (ended with
\* the process), "refused" (nobody listens)
NoConn == [state |-> "none", does |-> "good"]

\* a client connects: the listener takes the connection while main runs
Connect(c, b) ==
    /\ conn[c].state = "none"
    /\ \A d \in Clients : d < c => conn[d].state # "none"
    /\ IF main.pc = "exited"
       THEN /\ conn' = [conn EXCEPT ![c] = [state |-> "refused", does |-> b]]
            /\ UNCHANGED main
       ELSE /\ conn' = [conn EXCEPT ![c] = [state |-> "queued", does |-> b]]
            /\ main' = [main EXCEPT !.backlog = Append(@, c)]
    /\ UNCHANGED <<clones, alive>>

\* line 26: listener.accept().await returns the next connection
listener_accept ==
    /\ main.pc = "accept"
    /\ main.backlog # <<>>
    /\ main' = [pc |-> "handshake", cur |-> Head(main.backlog),
                backlog |-> Tail(main.backlog)]
    /\ conn' = [conn EXCEPT ![Head(main.backlog)].state = "handshake"]
    /\ UNCHANGED <<clones, alive>>

\* lines 28-30: NoiseServerAcceptor::accept returned Ok; the stream is
\* wrapped with a clone of the service, its task spawned, the loop goes on
AcceptOk ==
    /\ main.pc = "handshake"
    /\ conn[main.cur].does = "good"
    /\ conn' = [conn EXCEPT ![main.cur].state = "served"]
    /\ main' = [main EXCEPT !.pc = "accept", !.cur = 0]
    /\ UNCHANGED <<clones, alive>>

\* what the end of the process does to a connection
AtExit(c) ==
    IF conn[c].state \in {"queued", "served"} THEN [conn[c] EXCEPT !.state = "closed"]
    ELSE conn[c]

\* line 28: NoiseServerAcceptor::accept returned Err and the ? returns it
\* from main: the listener is dropped and the runtime shuts down with its tasks
AcceptErr ==
    /\ main.pc = "handshake"
    /\ conn[main.cur].does = "bad"
    /\ main' = [pc |-> "exited", cur |-> 0, backlog |-> <<>>]
    /\ conn' = [c \in Clients |-> IF c = main.cur
                                  THEN [conn[c] EXCEPT !.state = "failed"]
                                  ELSE AtExit(c)]
    /\ UNCHANGED <<clones, alive>>

\* ---------------------------------------------------------------- clones
\* service/mod.rs: a Service holds its storage and its broadcaster behind
\* two Arcs; a Service value is modelled as the allocations they point to
MaxClones == 2

MaxPublishes == 2

Subscribers == 1..2

\* the allocations an Arc of the model can point to
Allocs == 1..MaxClones

\* Service::new, lines 45-54: Arc::new of the store and of a new Broadcaster
Service_new == [store |-> 1, broadcaster |-> 1]

cloneFresh(svc) == [store |-> svc.store + 1, broadcaster |-> svc.broadcaster + 1]

\* impl Clone for Service, lines 27-38: Arc::clone of store and broadcaster
clone(svc) == [store |-> svc.store, broadcaster |-> svc.broadcaster]

\* handles: the Service values alive, the first made by Service::new
\* stores:  per allocation, the store in it
\* members: per allocation, the subscribers of the Broadcaster in it
\* via:     per subscriber, the handle it subscribed through (0: not yet)
\* inbox:   per subscriber, the publisher handles of the responses received
\* owed:    per subscriber, the publisher handles of every Publish executed
\*          since it subscribed, through whatever handle
\* wrote:   per key, the value of the last Hset and the handle it came through
\* read:    the last Hget: its handle, its key and the response
NewClones ==
    [handles |-> <<Service_new>>,
     stores  |-> [a \in Allocs |-> EmptyDb],
     members |-> [a \in Allocs |-> {}],
     via     |-> [s \in Subscribers |-> 0],
     inbox   |-> [s \in Subscribers |-> <<>>],
     owed    |-> [s \in Subscribers |-> <<>>],
     published |-> 0,
     wrote   |-> [k \in Keys |-> [some |-> FALSE, value |-> NoValue, via |-> 0]],
     read    |-> [via |-> 0, key |-> "k", res |-> DefaultResponse]]

Handles == 1..Len(clones.handles)

\* service.clone(), as server_noise.rs:29 and the tests make one per task
CloneService(h) ==
    /\ Len(clones.handles) < MaxClones
    /\ clones' = [clones EXCEPT !.handles = Append(@, clone(clones.handles[h]))]
    /\ UNCHANGED <<main, conn, alive>>

\* execute(Hset) through handle h: dispatch on the store of that handle
ExecuteHset(h, k, v) ==
    /\ clones' = [clones EXCEPT
          !.stores[clones.handles[h].store] = dispatch(new_hset("t1", k, v), @, FALSE).db,
          !.wrote[k] = [some |-> TRUE, value |-> v, via |-> h]]
    /\ UNCHANGED <<main, conn, alive>>

\* execute(Hget) through handle h
ExecuteHget(h, k) ==
    /\ clones' = [clones EXCEPT
          !.read = [via |-> h, key |-> k,
                    res |-> dispatch(new_hget("t1", k),
                                     clones.stores[clones.handles[h].store], FALSE).res]]
    /\ UNCHANGED <<main, conn, alive>>

\* execute(Subscribe) through handle h: the next subscriber joins the
\* broadcaster of that handle
ExecuteSubscribe(h, s) ==
    /\ clones.via[s] = 0
    /\ \A n \in Subscribers : n < s => clones.via[n] # 0
    /\ clones' = [clones EXCEPT !.members[clones.handles[h].broadcaster] = @ \cup {s},
                                !.via[s] = h]
    /\ UNCHANGED <<main, conn, alive>>

\* execute(Publish) through handle h: the subscribers of the broadcaster
\* of that handle, which keep reading their streams, receive the response
ExecutePublish(h) ==
    /\ clones.published < MaxPublishes
    /\ clones' = [clones EXCEPT
          !.published = @ + 1,
          !.inbox = [s \in Subscribers |->
                        IF s \in clones.members[clones.handles[h].broadcaster]
                        THEN Append(@[s], h) ELSE @[s]],
          !.owed = [s \in Subscribers |->
                        IF clones.via[s] # 0 THEN Append(@[s], h) ELSE @[s]]]
    /\ UNCHANGED <<main, conn, alive>>

HostInit ==
    /\ main = NewMain
    /\ conn = [c \in Clients |-> NoConn]
    /\ clones = NewClones
    /\ alive = TRUE

\* ------------------------------------------------------------- responses
\* CommandResponse (status, message, values); src/idx record which Publish
\* call and which position of its values list produced the response
\* (src = 0 for the subscribe acknowledgement).
Ack(id) == [status |-> 200, values |-> <<IntegerValue(id)>>, src |-> 0, idx |-> 0]

PublishedItem(n, vals, k) == [status |-> 200, values |-> <<vals[k]>>, src |-> n, idx |-> k]

Items(n, vals) == [k \in 1..Len(vals) |-> PublishedItem(n, vals, k)]

NotFoundMessage == "Not found"

\* --------------------------------------------------------------- mailbox
EnqueueFront(q, item) == <<item>> \o q

Enqueue(q, item) == Append(q, item)

TrySendUnbounded(q, item) == Enqueue(q, item)

\* non-blocking enqueue: a full mailbox drops the item
TrySend(q, item) == IF Len(q) < Capacity THEN Enqueue(q, item) ELSE q

RECURSIVE TrySendAll(_, _)
TrySendAll(q, items) ==
    IF items = <<>> THEN q
    ELSE TrySendAll(TrySend(q, Head(items)), Tail(items))

ClosedNever(id) == FALSE

\* a send fails with "closed" once the subscriber has dropped its receiver
Closed(id) == rx[id] = "dropped"

\* ----------------------------------------------------------------- calls
\* kind: "idle" (not issued), "subscribe", "publish", "unsubscribe"
\* pc:   position inside the handler; "done" once it has returned
\* after: the calls that had returned when this one was issued
\* members, rxGone, sent, lost: what a Publish saw and did, per subscriber
IdleCall ==
    [kind |-> "idle", pc |-> "idle", topic |-> "lobby", id |-> 0, values |-> <<>>,
     snap |-> {}, members |-> {}, after |-> {}, rxGone |-> {},
     sent |-> [i \in Ids |-> 0], lost |-> [i \in Ids |-> 0],
     status |-> 0, message |-> ""]

Returned == {c \in Calls : call[c].pc = "done"}

InFlight == {c \in Calls : call[c].kind # "idle" /\ call[c].pc # "done"}

\* the next call is issued while a worker is free
MayIssue(c) ==
    /\ call[c].kind = "idle"
    /\ \A d \in Calls : d < c => call[d].kind # "idle"
    /\ Cardinality(InFlight) < MaxInFlight

\* Broadcaster::default()
TopicInit ==
    /\ next_id = 1
    /\ topics = [t \in Topics |-> {}]
    /\ subscriptions = {}
    /\ mailbox = [i \in Ids |-> <<>>]
    /\ rx = [i \in Ids |-> "none"]
    /\ received = [i \in Ids |-> <<>>]
    /\ call = [c \in Calls |-> IdleCall]

Init == TopicInit /\ StoreInit /\ ServiceInit /\ StreamInit /\ NoiseInit /\ HostInit

\* ------------------------------------------------------------- Subscribe
NextIdStuck(n) == n

\* atomic increment of the id counter
NextIdAfter(n) == n + 1

TopicInsertAll(ts, t, id) == [x \in Topics |-> ts[x] \cup {id}]

\* topics.entry(topic).or_default().insert(id)
TopicInsert(ts, t, id) == [ts EXCEPT ![t] = @ \cup {id}]

\* steps 1-4: allocate a fresh id, create the mailbox, record the sender in
\* subscriptions and insert the id into topics[topic].  No other operation
\* reads subscriptions[id] before the id is a member of a topic (Publish
\* looks up only ids of its snapshot, Unsubscribe only members), so the
\* two map insertions are taken as one step.
SubscribeInsert(c, t) ==
    /\ MayIssue(c)
    /\ next_id \in Ids
    /\ call' = [call EXCEPT ![c] = [IdleCall EXCEPT !.kind = "subscribe", !.pc = "joined",
                                       !.topic = t, !.id = next_id, !.after = Returned]]
    /\ next_id' = NextIdAfter(next_id)
    /\ subscriptions' = subscriptions \cup {next_id}
    /\ topics' = TopicInsert(topics, t, next_id)
    /\ UNCHANGED <<mailbox, rx, received>>

\* steps 5-6: push the acknowledgement, hand the receiver to the caller
SubscribeAck(c) ==
    /\ call[c].kind = "subscribe"
    /\ call[c].pc = "joined"
    /\ mailbox' = [mailbox EXCEPT ![call[c].id] = TrySend(@, Ack(call[c].id))]
    /\ rx' = [rx EXCEPT ![call[c].id] = "open"]
    /\ call' = [call EXCEPT ![c].pc = "done", ![c].status = 200]
    /\ UNCHANGED <<next_id, topics, subscriptions, received>>

\* the Subscribe call that allocated id still holds its own sender handle
SubscribeHolds(id) ==
    \E c \in Calls : call[c].kind = "subscribe" /\ call[c].id = id /\ call[c].pc = "joined"

\* --------------------------------------------------------------- Publish
SnapshotAll(t) == UNION {topics[x] : x \in Topics}

\* snapshot of the subscriber id set of the topic (empty if unknown)
Snapshot(t) == topics[t]

\* the handler returns its one-shot status-200 acknowledgement once every
\* subscriber of the snapshot has been served
PublishPc(remaining) == IF remaining = {} THEN "done" ELSE "sending"

PublishStatus(remaining) == IF remaining = {} THEN 200 ELSE 0

PublishStart(c, t, vals) ==
    /\ MayIssue(c)
    /\ call' = [call EXCEPT ![c] =
                  [IdleCall EXCEPT !.kind = "publish", !.pc = PublishPc(Snapshot(t)),
                                   !.status = PublishStatus(Snapshot(t)),
                                   !.topic = t, !.values = vals,
                                   !.snap = Snapshot(t), !.members = topics[t],
                                   !.after = Returned,
                                   !.rxGone = {i \in Ids : rx[i] = "dropped"}]]
    /\ UNCHANGED <<next_id, topics, subscriptions, mailbox, rx, received>>

RemoveTopicOnly(t, id) ==
    /\ topics' = [topics EXCEPT ![t] = @ \ {id}]
    /\ UNCHANGED subscriptions

\* drop every trace of a subscriber: its membership and its sender
RemoveSubscription(t, id) ==
    /\ topics' = [topics EXCEPT ![t] = @ \ {id}]
    /\ subscriptions' = subscriptions \ {id}

\* one subscriber of the snapshot: every value of the publish, in order
DeliverTo(c, id) ==
    LET p    == call[c]
        q    == TrySendAll(mailbox[id], Items(c, p.values))
        k    == Len(q) - Len(mailbox[id])
        rest == p.snap \ {id}
        base == [call EXCEPT ![c].snap = rest, ![c].pc = PublishPc(rest),
                             ![c].status = PublishStatus(rest)]
    IN  IF id \notin subscriptions
        THEN /\ call' = base
             /\ UNCHANGED <<topics, subscriptions, mailbox>>
        ELSE IF Closed(id)
        THEN /\ RemoveSubscription(p.topic, id)
             /\ call' = base
             /\ UNCHANGED mailbox
        ELSE /\ mailbox' = [mailbox EXCEPT ![id] = q]
             /\ call' = [base EXCEPT ![c].sent[id] = k,
                                     ![c].lost[id] = Len(p.values) - k]
             /\ UNCHANGED <<topics, subscriptions>>

HasRoom(id, k) == Len(mailbox[id]) + k <= Capacity

PublishDeliverAwait(c) ==
    /\ call[c].kind = "publish"
    /\ call[c].pc = "sending"
    /\ \E id \in call[c].snap : HasRoom(id, Len(call[c].values)) /\ DeliverTo(c, id)
    /\ UNCHANGED <<next_id, rx, received>>

PublishDeliver(c) ==
    /\ call[c].kind = "publish"
    /\ call[c].pc = "sending"
    /\ \E id \in call[c].snap : DeliverTo(c, id)
    /\ UNCHANGED <<next_id, rx, received>>

\* ----------------------------------------------------------- Unsubscribe
IsSubscribed(t, id) == id \in subscriptions

IsMember(t, id) == id \in topics[t]

\* membership test and removal from topics[topic]; 404 when not a member
UnsubscribeStart(c, t, id) ==
    /\ MayIssue(c)
    /\ IF IsMember(t, id)
       THEN /\ topics' = [topics EXCEPT ![t] = @ \ {id}]
            /\ call' = [call EXCEPT ![c] =
                          [IdleCall EXCEPT !.kind = "unsubscribe", !.pc = "removing",
                                           !.topic = t, !.id = id, !.after = Returned]]
       ELSE /\ call' = [call EXCEPT ![c] =
                          [IdleCall EXCEPT !.kind = "unsubscribe", !.pc = "done",
                                           !.topic = t, !.id = id, !.after = Returned,
                                           !.status = 404, !.message = NotFoundMessage]]
            /\ UNCHANGED topics
    /\ UNCHANGED <<next_id, subscriptions, mailbox, rx, received>>

\* removal from subscriptions (drops the sender), then the status-200 response
UnsubscribeDrop(c) ==
    /\ call[c].kind = "unsubscribe"
    /\ call[c].pc = "removing"
    /\ subscriptions' = subscriptions \ {call[c].id}
    /\ call' = [call EXCEPT ![c].pc = "done", ![c].status = 200]
    /\ UNCHANGED <<next_id, topics, mailbox, rx, received>>

\* ------------------------------------------------------ subscriber stream
SendersGone(id) == id \notin subscriptions /\ ~SubscribeHolds(id)

\* the stream yields the next queued response
Recv(id) ==
    /\ rx[id] = "open"
    /\ mailbox[id] # <<>>
    /\ received' = [received EXCEPT ![id] = Append(@, Head(mailbox[id]))]
    /\ mailbox' = [mailbox EXCEPT ![id] = Tail(@)]
    /\ UNCHANGED <<next_id, topics, subscriptions, rx, call>>

\* end of stream: the mailbox is drained and every sender is gone
RecvEnd(id) ==
    /\ rx[id] = "open"
    /\ mailbox[id] = <<>>
    /\ SendersGone(id)
    /\ rx' = [rx EXCEPT ![id] = "ended"]
    /\ UNCHANGED <<next_id, topics, subscriptions, mailbox, received, call>>

\* the subscriber drops its receiver; what was still queued is discarded
DropReceiver(id) ==
    /\ rx[id] = "open"
    /\ rx' = [rx EXCEPT ![id] = "dropped"]
    /\ mailbox' = [mailbox EXCEPT ![id] = <<>>]
    /\ UNCHANGED <<next_id, topics, subscriptions, received, call>>

\* ------------------------------------------------------ the service dropped
\* the Service and every clone of it are dropped: no request is executed
\* any more; the handlers still running hold their Arc<Broadcaster>
DropService ==
    /\ alive
    /\ alive' = FALSE
    /\ UNCHANGED <<topicVars, main, conn, clones>>

SendersLeaked(subs) == subs

\* the senders left when the Broadcaster is dropped with its maps
SendersAfterDrop(subs) == {}

\* the last Arc<Broadcaster> is gone once the service is dropped and no
\* handler runs: topics and subscriptions are dropped, the senders with them
BroadcasterDrop ==
    /\ ~alive
    /\ InFlight = {}
    /\ subscriptions # {}
    /\ subscriptions' = SendersAfterDrop(subscriptions)
    /\ topics' = [t \in Topics |-> {}]
    /\ UNCHANGED <<next_id, mailbox, rx, received, call, main, conn, clones, alive>>

\* ------------------------------------------------------------------ Next
\* an Unsubscribe names an allocated id or the first id not yet allocated
UnsubIds == {i \in Ids : i <= next_id}

\* the broadcaster's steps leave the storage and the service as they are
Idle == UNCHANGED <<storeVars, serviceVars, prostVars, noiseVars, hostVars>>

Next ==
    \/ \E c \in Calls, t \in Topics : SubscribeInsert(c, t) /\ Idle
    \/ \E c \in Calls : SubscribeAck(c) /\ Idle
    \/ \E c \in Calls, t \in Topics, vals \in ValueLists : PublishStart(c, t, vals) /\ Idle
    \/ \E c \in Calls : PublishDeliver(c) /\ Idle
    \/ \E c \in Calls, t \in Topics, id \in UnsubIds : UnsubscribeStart(c, t, id) /\ Idle
    \/ \E c \in Calls : UnsubscribeDrop(c) /\ Idle
    \/ \E id \in Ids : Recv(id) /\ Idle
    \/ \E id \in Ids : RecvEnd(id) /\ Idle
    \/ \E id \in Ids : DropReceiver(id) /\ Idle

Spec == Init /\ [][Next]_vars

\* handlers are scheduled fairly; nothing is assumed about the subscribers,
\* which may never poll their streams
HandlerFairness ==
    \A c \in Calls : /\ WF_vars(SubscribeAck(c) /\ Idle)
                     /\ WF_vars(PublishDeliver(c) /\ Idle)
                     /\ WF_vars(UnsubscribeDrop(c) /\ Idle)

LiveSpec == Spec /\ HandlerFairness

\* -------------------------------------------- the broadcaster until dropped
\* requests are executed while the service is alive; the handlers that
\* run and the subscribers' streams go on after it is dropped
DropIdle == UNCHANGED <<storeVars, serviceVars, prostVars, noiseVars>>

DropNext ==
    \/ \E c \in Calls, t \in Topics : alive /\ SubscribeInsert(c, t) /\ Idle
    \/ \E c \in Calls : SubscribeAck(c) /\ Idle
    \/ \E c \in Calls, t \in Topics, vals \in ValueLists :
          alive /\ PublishStart(c, t, vals) /\ Idle
    \/ \E c \in Calls : PublishDeliver(c) /\ Idle
    \/ \E id \in Ids : Recv(id) /\ Idle
    \/ \E id \in Ids : RecvEnd(id) /\ Idle
    \/ DropService /\ DropIdle
    \/ BroadcasterDrop /\ DropIdle

\* the handlers are scheduled, the broadcaster is freed when its last
\* owner is gone, and the subscribers keep polling their streams
DropFairness ==
    /\ HandlerFairness
    /\ WF_vars(BroadcasterDrop /\ DropIdle)
    /\ \A id \in Ids : WF_vars(Recv(id) /\ Idle) /\ WF_vars(RecvEnd(id) /\ Idle)

DropSpec == Init /\ [][DropNext]_vars /\ DropFairness

\* ------------------------------------------------- the storage in parallel
\* storage calls from several tasks on one Rocksdb
StoreNext ==
    \/ \E o \in Ops, t \in Tables, k \in Keys : Get(o, t, k) /\ UNCHANGED <<topicVars, serviceVars, prostVars, noiseVars, hostVars>>
    \/ \E o \in Ops, t \in WriteTables, k \in Keys, v \in StoreValues :
          SetBegin(o, t, k, v) /\ UNCHANGED <<topicVars, serviceVars, prostVars, noiseVars, hostVars>>
    \/ \E o \in Ops : SetPut(o) /\ UNCHANGED <<topicVars, serviceVars, prostVars, noiseVars, hostVars>>
    \/ \E o \in Ops, t \in Tables, k \in Keys : DelBegin(o, t, k) /\ UNCHANGED <<topicVars, serviceVars, prostVars, noiseVars, hostVars>>
    \/ \E o \in Ops : DelEnd(o) /\ UNCHANGED <<topicVars, serviceVars, prostVars, noiseVars, hostVars>>

StoreSpec == Init /\ [][StoreNext]_vars

\* ------------------------------------------------- the service, one request
\* after the other, on a service built with one of the interceptor sets
BuiltInit ==
    /\ TopicInit
    /\ StoreInit
    /\ service \in Services
    /\ last = NoRequest
    /\ StreamInit
    /\ NoiseInit
    /\ HostInit

ServiceNext ==
    \E req \in Requests, f \in BOOLEAN : Execute(req, f) /\ UNCHANGED <<topicVars, prostVars, noiseVars, hostVars>>

ServiceSpec == BuiltInit /\ [][ServiceNext]_vars

\* ------------------------------------------- a ProstStream, its read half
\* the peer writes frames, their bytes arrive in pieces, the stream is polled
RecvNext ==
    \/ \E m \in Msgs : PeerSend(m) /\ UNCHANGED <<topicVars, storeVars, serviceVars, noiseVars, hostVars>>
    \/ \E n \in 1..(MaxFrames * (LEN_LEN + 2)) : Arrive(n) /\ UNCHANGED <<topicVars, storeVars, serviceVars, noiseVars, hostVars>>
    \/ PeerClose /\ UNCHANGED <<topicVars, storeVars, serviceVars, noiseVars, hostVars>>
    \/ poll_next /\ UNCHANGED <<topicVars, storeVars, serviceVars, noiseVars, hostVars>>

RecvSpec == Init /\ [][RecvNext]_vars

\* ------------------------------------------ a ProstStream, its write half
\* messages are sent and the sink is flushed and closed, over an inner
\* stream that accepts any number of the bytes offered
SendNext ==
    \/ \E m \in Msgs : start_send(m) /\ UNCHANGED <<topicVars, storeVars, serviceVars, noiseVars, hostVars>>
    \/ \E k \in 0..(MaxFrames * (LEN_LEN + 2)), flushed \in BOOLEAN :
          PollFlush(k, flushed) /\ UNCHANGED <<topicVars, storeVars, serviceVars, noiseVars, hostVars>>
    \/ \E k \in 0..(MaxFrames * (LEN_LEN + 2)), flushed \in BOOLEAN, shut \in BOOLEAN :
          PollClose(k, flushed, shut) /\ UNCHANGED <<topicVars, storeVars, serviceVars, noiseVars, hostVars>>

SendSpec == Init /\ [][SendNext]_vars

\* ------------------------------- poll_flush of a ProstStream, step by step
\* messages are queued between the calls; a call of poll_flush runs its
\* loop one poll_write at a time until it returns
FlushIdle == UNCHANGED <<topicVars, storeVars, serviceVars, noiseVars, hostVars>>

FlushNext ==
    \/ \E m \in Msgs : sink.ret # "running" /\ start_send(m) /\ FlushIdle
    \/ FlushBegin /\ FlushIdle
    \/ \E n \in 0..(MaxFrames * (LEN_LEN + 2)), kind \in {"ok", "pending", "err"} :
          FlushWrite([kind |-> kind, n |-> n]) /\ FlushIdle
    \/ \E flushed \in BOOLEAN : FlushEnd(flushed) /\ FlushIdle
    \/ InnerFull /\ FlushIdle

\* the thread that called poll_flush keeps running it
FlushFairness ==
    /\ WF_vars(\E n \in 0..(MaxFrames * (LEN_LEN + 2)), kind \in {"ok", "pending", "err"} :
                  FlushWrite([kind |-> kind, n |-> n]) /\ FlushIdle)
    /\ WF_vars(\E flushed \in BOOLEAN : FlushEnd(flushed) /\ FlushIdle)

FlushSpec == Init /\ [][FlushNext]_vars /\ FlushFairness

\* ------------------------------------------------ a NoiseStream, one way
\* one end writes buffers of any size, the other reads; the inner stream
\* accepts and delivers any number of bytes at a time
NoiseNext ==
    \/ \E pt \in Plaintexts, k \in -1..(BufLen + TagLen) :
          poll_write(pt, k) /\ UNCHANGED <<topicVars, storeVars, serviceVars, prostVars, hostVars>>
    \/ \E n \in 1..BufLen, room \in 1..2 :
          poll_read(n, room) /\ UNCHANGED <<topicVars, storeVars, serviceVars, prostVars, hostVars>>

NoiseSpec == Init /\ [][NoiseNext]_vars

\* ------------------------------------------------------ the accept loop
\* clients connect at any time; main is scheduled whenever it can run;
\* the steps of the server process leave the other parts as they are
AcceptIdle == UNCHANGED <<topicVars, storeVars, serviceVars, prostVars, noiseVars>>

AcceptNext ==
    \/ \E c \in Clients, b \in Behaviours : Connect(c, b) /\ AcceptIdle
    \/ listener_accept /\ AcceptIdle
    \/ AcceptOk /\ AcceptIdle
    \/ AcceptErr /\ AcceptIdle

AcceptFairness ==
    /\ WF_vars(listener_accept /\ AcceptIdle)
    /\ WF_vars(AcceptOk /\ AcceptIdle)
    /\ WF_vars(AcceptErr /\ AcceptIdle)

AcceptSpec == Init /\ [][AcceptNext]_vars /\ AcceptFairness

\* ------------------------------------------- the clones of one Service
\* tasks execute requests through their clones, one request at a time
CloneNext ==
    \/ \E h \in Handles : CloneService(h) /\ AcceptIdle
    \/ \E h \in Handles, k \in Keys, v \in StoreValues : ExecuteHset(h, k, v) /\ AcceptIdle
    \/ \E h \in Handles, k \in Keys : ExecuteHget(h, k) /\ AcceptIdle
    \/ \E h \in Handles, s \in Subscribers : ExecuteSubscribe(h, s) /\ AcceptIdle
    \/ \E h \in Handles : ExecutePublish(h) /\ AcceptIdle

CloneSpec == Init /\ [][CloneNext]_vars

\* ================================================================ claims
IsSubscribe(c)   == call[c].kind = "subscribe"
IsPublish(c)     == call[c].kind = "publish"
IsUnsubscribe(c) == call[c].kind = "unsubscribe"
HasReturned(c)   == call[c].pc = "done"
Concurrent(c, d) == c # d /\ c \notin call[d].after /\ d \notin call[c].after
\* everything the broadcaster still holds or the stream has yielded, in order
Seen(id) == received[id] \o mailbox[id]
FromPublish(id, c) == {i \in 1..Len(Seen(id)) : Seen(id)[i].src = c}

\* C1: every Subscribe obtains an id different from every id allocated
\* before it, including ids whose subscription Unsubscribe already removed.
C1_IdsNeverReused ==
    \A c, d \in Calls :
        (c # d /\ IsSubscribe(c) /\ IsSubscribe(d)) => call[c].id # call[d].id

\* a Subscribe issued after another subscriber's Unsubscribe returned 200
C1_Witness ==
    \E c, d, u \in Calls :
        /\ IsSubscribe(c) /\ IsSubscribe(d) /\ IsUnsubscribe(u)
        /\ call[u].id = call[c].id /\ call[u].status = 200
        /\ u \in call[d].after

\* C2: the first response a subscriber receives on its stream is the
\* status-200 acknowledgement carrying its own id; no published value is
\* received before it.
C2_AckIsFirst ==
    \A id \in Ids : received[id] # <<>> => received[id][1] = Ack(id)

\* C3: each subscriber receives published values in publish-submission
\* order: the values of one publish in the order of its values list, and
\* no value of a publish before a value of a publish that had returned
\* before the former was issued.
C3_PublishOrder ==
    \A id \in Ids : \A i, j \in 1..Len(received[id]) :
        LET a == received[id][i]
            b == received[id][j]
        IN  (i < j /\ a.src # 0 /\ b.src # 0) =>
                /\ a.src = b.src => a.idx < b.idx
                /\ a.src # b.src => b.src \notin call[a.src].after

\* subscribe; publish [x]; publish [y] has yielded [id], [x], [y]
C3_Witness ==
    \E id \in Ids, c, d \in Calls :
        /\ IsPublish(c) /\ IsPublish(d) /\ c \in call[d].after
        /\ call[c].values = <<X>> /\ call[d].values = <<Y>>
        /\ received[id] = <<Ack(id), PublishedItem(c, <<X>>, 1), PublishedItem(d, <<Y>>, 1)>>

\* C4: a value published to topic T reaches only mailboxes of subscribers
\* that were members of topics[T] when the publish took its snapshot.
C4_OnlyMembersAtPublish ==
    \A id \in Ids : \A i \in 1..Len(Seen(id)) :
        Seen(id)[i].src # 0 => id \in call[Seen(id)[i].src].members

\* a publish has delivered to a member while a subscriber of the other
\* topic, acknowledged before the publish was issued, got nothing
C4_Witness ==
    \E c, s \in Calls, i \in Ids :
        /\ IsPublish(c) /\ HasReturned(c) /\ call[c].values # <<>>
        /\ i \in call[c].members /\ call[c].sent[i] > 0
        /\ IsSubscribe(s) /\ s \in call[c].after /\ call[s].topic # call[c].topic
        /\ received[call[s].id] = <<Ack(call[s].id)>> /\ mailbox[call[s].id] = <<>>

\* a delivery step to a subscriber whose mailbox has room for the values of
\* the publish enqueues all of them, in order
C5_ServedWhenRoom ==
    \A c \in Calls, id \in Ids :
        ( /\ IsPublish(c) /\ id \in call[c].snap /\ id \notin call'[c].snap
          /\ id \in subscriptions /\ rx[id] # "dropped"
          /\ Len(mailbox[id]) + Len(call[c].values) <= Capacity )
        => mailbox'[id] = mailbox[id] \o Items(c, call[c].values)

\* C5: no mailbox ever holds more than Capacity undelivered responses, and
\* a Publish serves every subscriber whose mailbox has room for its values
\* with all of them, whatever the state of the other members' mailboxes.
C5_BoundedAndIsolated ==
    /\ [](\A id \in Ids : Len(mailbox[id]) <= Capacity)
    /\ [][C5_ServedWhenRoom]_vars

\* one publish lost a value at a full mailbox and delivered every value to
\* another member
C5_Witness ==
    \E c \in Calls, i, j \in Ids :
        /\ IsPublish(c) /\ HasReturned(c) /\ i # j
        /\ {i, j} \subseteq call[c].members
        /\ call[c].lost[i] > 0 /\ Len(mailbox[i]) = Capacity
        /\ call[c].sent[j] = Len(call[c].values)

\* C6: every Publish returns its one status-200 acknowledgement without
\* any subscriber dequeuing, also when member mailboxes are full and when
\* the topic has no subscriber.
C6_PublishAlwaysReturns ==
    /\ [](\A c \in Calls : IsPublish(c) =>
             /\ call[c].pc \in {"sending", "done"}
             /\ HasReturned(c) <=> call[c].status = 200)
    /\ \A c \in Calls : (IsPublish(c) /\ ~HasReturned(c)) ~> (HasReturned(c) /\ call[c].status = 200)

\* a publish returned although a member's mailbox was full and its
\* subscriber had never dequeued anything
C6_Witness ==
    \E c \in Calls, i \in Ids :
        /\ IsPublish(c) /\ HasReturned(c) /\ call[c].status = 200
        /\ i \in call[c].members /\ call[c].values # <<>>
        /\ call[c].lost[i] = Len(call[c].values)
        /\ received[i] = <<>> /\ Len(mailbox[i]) = Capacity

\* C7: after Subscribe returned id and Unsubscribe(topic, id) returned 200
\* the id is in neither topics[topic] nor subscriptions, the stream yields
\* the acknowledgement first and, once it has ended, everything that was
\* enqueued, and no Publish issued afterwards delivers to the id.
C7_AfterUnsubscribe ==
    \A s, u \in Calls :
        ( /\ IsSubscribe(s) /\ IsUnsubscribe(u) /\ s \in call[u].after
          /\ call[u].id = call[s].id /\ call[u].topic = call[s].topic
          /\ HasReturned(u) /\ call[u].status = 200 )
        => LET id == call[s].id IN
           /\ id \notin topics[call[u].topic]
           /\ id \notin subscriptions
           /\ received[id] # <<>> => received[id][1] = Ack(id)
           /\ rx[id] = "ended" => (received[id] # <<>> /\ mailbox[id] = <<>>)
           /\ \A c \in Calls : (IsPublish(c) /\ u \in call[c].after) =>
                                  (call[c].sent[id] = 0 /\ FromPublish(id, c) = {})

\* an Unsubscribe naming a non-member returns 404 "Not found" in one step
\* that changes neither topics nor subscriptions
C8_NonMemberStep ==
    \A c \in Calls :
        ( /\ call[c].kind = "idle" /\ call'[c].kind = "unsubscribe"
          /\ call'[c].id \notin topics[call'[c].topic] )
        => /\ call'[c].pc = "done"
           /\ call'[c].status = 404
           /\ call'[c].message = "Not found"
           /\ topics' = topics
           /\ subscriptions' = subscriptions

\* an Unsubscribe issued after a successful Unsubscribe of the same
\* (topic, id) returns 404
C8_SecondUnsubscribe ==
    \A u, v \in Calls :
        ( /\ IsUnsubscribe(u) /\ IsUnsubscribe(v) /\ u \in call[v].after
          /\ call[u].status = 200
          /\ call[u].topic = call[v].topic /\ call[u].id = call[v].id )
        => call[v].status = 404

\* C8: Unsubscribe(topic, id) of a non-member returns 404 "Not found" and
\* leaves topics and subscriptions unchanged; a second Unsubscribe of the
\* same (topic, id) returns 404.
C8_UnsubscribeNotFound ==
    /\ [][C8_NonMemberStep]_vars
    /\ []C8_SecondUnsubscribe

\* subscribe; unsubscribe (200); unsubscribe again (404 "Not found")
C8_Witness ==
    \E s, u, v \in Calls :
        /\ IsSubscribe(s) /\ IsUnsubscribe(u) /\ IsUnsubscribe(v)
        /\ s \in call[u].after /\ u \in call[v].after
        /\ call[u].id = call[s].id /\ call[u].topic = call[s].topic
        /\ call[v].id = call[s].id /\ call[v].topic = call[s].topic
        /\ call[u].status = 200
        /\ call[v].status = 404 /\ call[v].message = "Not found"

\* a returned publish has enqueued, for each subscriber, none of its values
\* or all that the mailbox had room for
C9_AllOrNone ==
    \A c \in Calls, id \in Ids :
        (IsPublish(c) /\ HasReturned(c) /\ rx[id] # "dropped") =>
            \/ FromPublish(id, c) = {}
            \/ Cardinality(FromPublish(id, c)) + call[c].lost[id] = Len(call[c].values)

\* nothing is queued for a subscriber whose receiver is dropped
C9_NothingAfterDrop == \A id \in Ids : rx[id] = "dropped" => mailbox[id] = <<>>

C10_DroppedReceiverRemoved ==
    \A c, s \in Calls :
        ( /\ IsPublish(c) /\ HasReturned(c) /\ IsSubscribe(s)
          /\ call[s].topic = call[c].topic /\ call[s].id \in call[c].rxGone
          /\ ~\E u \in Calls : IsUnsubscribe(u) /\ call[u].id = call[s].id
                                /\ call[u].topic = call[s].topic )
        => /\ call[s].id \notin topics[call[c].topic]
           /\ call[s].id \notin subscriptions

\* a publish found a member's receiver dropped and removed the member
C10_Witness ==
    \E c, s \in Calls :
        /\ IsPublish(c) /\ HasReturned(c) /\ IsSubscribe(s)
        /\ call[s].id \in call[c].rxGone /\ call[s].id \in call[c].members
        /\ call[s].id \notin subscriptions
        /\ \A t \in Topics : call[s].id \notin topics[t]

\* a Subscribe step makes its new id a member of the named topic only
C11_SubscribeStep ==
    \A c \in Calls :
        (call[c].kind = "idle" /\ call'[c].kind = "subscribe") =>
            LET id == call'[c].id
                t  == call'[c].topic
            IN  /\ \A x \in Topics : id \notin topics[x]
                /\ topics'[t] = topics[t] \cup {id}
                /\ \A x \in Topics \ {t} : topics'[x] = topics[x]

\* the steps of Unsubscribe(topic, id) of a member remove the id from
\* topics[topic], then its sender, and touch no other id or topic entry
C11_UnsubscribeStep ==
    \A c \in Calls :
        /\ ( /\ call[c].kind = "idle" /\ call'[c].kind = "unsubscribe"
              /\ call'[c].id \in topics[call'[c].topic] )
           => /\ topics'[call'[c].topic] = topics[call'[c].topic] \ {call'[c].id}
              /\ \A x \in Topics \ {call'[c].topic} : topics'[x] = topics[x]
              /\ subscriptions' = subscriptions
        /\ (IsUnsubscribe(c) /\ call[c].pc = "removing" /\ call'[c].pc = "done")
           => /\ topics' = topics
              /\ subscriptions' = subscriptions \ {call[c].id}

C11_Disjoint ==
    \A t, x \in Topics : t # x => topics[t] \cap topics[x] = {}

\* C11: each subscriber id is a member of at most one topic's set;
\* Subscribe adds the new id to exactly one topic, and Unsubscribe(topic,
\* id) removes exactly that membership and no other id or topic entry.
C11_OneTopicPerId ==
    /\ []C11_Disjoint
    /\ [][C11_SubscribeStep]_vars
    /\ [][C11_UnsubscribeStep]_vars

\* two subscribers on different topics; the Unsubscribe of one has
\* returned 200 and the other is still a member of its own topic
C11_Witness ==
    \E s, r, u \in Calls :
        /\ IsSubscribe(s) /\ IsSubscribe(r) /\ call[s].topic # call[r].topic
        /\ IsUnsubscribe(u) /\ call[u].status = 200
        /\ call[u].id = call[s].id /\ call[u].topic = call[s].topic
        /\ \A x \in Topics : call[s].id \notin topics[x]
        /\ call[r].id \in topics[call[r].topic]

\* ------------------------------------------------- claims on the storage
IsSet(o)  == op[o].kind = "set" /\ op[o].pc = "done"
IsDel(o)  == op[o].kind = "del" /\ op[o].pc = "done"
IsGet(o)  == op[o].kind = "get" /\ op[o].pc = "done"
SameKey(o, n) == op[o].table = op[n].table /\ op[o].key = op[n].key
\* the position of the last write to the key of call o among the first p writes
WriteBefore(o, p) == LastWrite(SubSeq(hist, 1, p), op[o].table, op[o].key)

\* C17: on every storage backend, the Rocksdb one included, for values v1,
\* v2 of any variant: after set(t,k,v1); set(t,k,v2), get(t,k) returns
\* exactly v2 and the second set returned exactly v1.
C17_SetSetGet ==
    \A a, b, g \in Ops :
        ( /\ IsSet(a) /\ IsSet(b) /\ IsGet(g) /\ SameKey(a, b) /\ SameKey(b, g)
          /\ WriteBefore(b, op[b].pos - 1) = op[a].pos
          /\ WriteBefore(g, op[g].seen) = op[b].pos )
        => /\ op[g].res = Some(op[b].value)
           /\ op[b].res = Some(op[a].value)

\* the value the store holds for a value set: the reading of its bytes
StoredValue(v) == FromBytes(Encode(v))

\* what is stored under the key of call o once the first p writes took effect
ValueAt(o, p) ==
    IF WriteBefore(o, p) # 0 /\ hist[WriteBefore(o, p)].kind = "set"
    THEN Some(StoredValue(hist[WriteBefore(o, p)].value))
    ELSE None

\* the prior value of a set is what was stored just before its own write
C18_SetPrior == \A s \in Ops : IsSet(s) => op[s].res = ValueAt(s, op[s].pos - 1)

\* a get returns what every write that took effect before it left: for a
\* set in parallel, the value before or the value after that set
C18_GetBeforeOrAfter == \A g \in Ops : IsGet(g) => op[g].res = ValueAt(g, op[g].seen)

\* no stored value is returned as prior value by a set and by a del
C18_NotBoth ==
    \A s, d \in Ops :
        (IsSet(s) /\ IsDel(d) /\ SameKey(s, d) /\ op[s].res.some /\ op[d].res.some)
        => op[s].src # op[d].src

\* while a set holds the lock between its read and its put, no other call
\* is between its own read and write, and none reads
C18_SetAlone ==
    \A s \in Ops :
        (op[s].kind = "set" /\ op[s].pc = "locked") =>
            /\ lock = [writer |-> s, readers |-> {}]
            /\ \A o \in Ops \ {s} : op[o].pc # "locked"
            /\ ~ ENABLED (\E o \in Ops, t \in Tables, k \in Keys : Get(o, t, k) \/ DelBegin(o, t, k))

\* C18: set is atomic against get and del on the same key running in
\* parallel: the prior value a set returns is the value stored just before
\* its own write took effect in the one order of the writes, a get returns
\* the value before or after the set, and a set and a del never both
\* return the same stored value as prior value.
C18_SetAtomic ==
    /\ C18_SetPrior
    /\ C18_GetBeforeOrAfter
    /\ C18_NotBoth
    /\ C18_SetAlone

\* set(k, a) returned; then a del and a set of the same key: the del
\* returned the stored a, the set took effect right after it and found the
\* key absent
C18_Witness ==
    \E a, d, s \in Ops :
        /\ IsSet(a) /\ IsDel(d) /\ IsSet(s) /\ SameKey(a, d) /\ SameKey(d, s)
        /\ op[a].value = A /\ op[a].pos = 1
        /\ op[d].src = 1 /\ op[d].res = Some(A) /\ op[d].pos = 2
        /\ op[s].pos = 3 /\ op[s].res = None /\ op[s].src = 0

\* ------------------------------------------------- claims on the service
Handled == last.route # "none"

\* what the on_received chain returns for the last request
Received == NotifyReceived(service.on_received, last.req, 1)

\* C12: Service::execute runs the on_received interceptors in registration
\* order before dispatching; if one returns Some(response), execute yields
\* exactly that response as a one-element stream and the command is not
\* executed against the storage or the broadcaster.
C12_ReceivedShortCircuits ==
    (Handled /\ Received.some) =>
        /\ last.stream = "once"
        /\ last.out = <<Received.res>>
        /\ ~last.executed
        /\ ~last.streamed

\* a service built with fn_received(check_special_keys) and nothing else
OnlySpecialKeys == service = Service(<<"check_special_keys">>, <<>>, <<>>, <<>>)

\* the last request ran as a unary command without a storage failure
Served == last.route = "unary" /\ ~last.fault

\* one execute step of a service whose on_received chain answered Some
C13_ReceivedIgnoredStep ==
    /\ (Received.some /\ Handled)' =>
          (last.executed /\ last.out # <<Received.res>>)'
    /\ \A v \in StoreValues :
        (OnlySpecialKeys /\ db = EmptyDb /\ ~last'.fault) =>
            /\ last'.req = new_hget("t1", "admin") =>
                  /\ last'.out = <<FromKvError(NotFound("t1", "admin"))>>
                  /\ last'.out[1].status = 404
                  /\ db' = db
            /\ last'.req = new_hset("t1", "admin", v) =>
                  /\ last'.out = <<FromValue(NoValue)>>
                  /\ last'.out[1].status = 200
                  /\ db' = put_cf(create_cf(db, "t1"), "t1", "admin", Encode(v))

C14_SomeStopsAll ==
    \A j \in 1..Len(last.ran) :
        last.ran[j].some =>
            /\ j = Len(last.ran)
            /\ last.out = <<Denied>>

\* C15: every request with one of the nine unary commands is handled in
\* the unary dispatcher and yields exactly one response, never reaching
\* the streaming dispatcher and never panicking; Publish, Subscribe and
\* Unsubscribe, and only those, go to the streaming dispatcher.
C15_UnaryStaysUnary ==
    (Handled /\ ~last.fault) =>
        /\ last.req.cmd \in UnaryCommands =>
              /\ last.route = "unary"
              /\ last.executed
              /\ Len(last.out) = 1
              /\ ~last.streamed
        /\ last.streamed <=> last.req.cmd \in StreamingCommands

\* C16: for Subscribe, Publish and Unsubscribe, execute returns the
\* broadcaster's stream unmodified: no on_executed, on_before_send or
\* on_after_send interceptor is invoked on it.
C16_StreamVerbatim ==
    (Handled /\ last.req.cmd \in StreamingCommands) =>
        /\ last.route = "streaming"
        /\ last.stream = "broadcaster"
        /\ last.out = <<>>
        /\ last.ran = <<>>

\* a Subscribe handled by a service that has interceptors on all chains
C16_Witness ==
    /\ last.req = new_subscribe("lobby")
    /\ last.stream = "broadcaster"
    /\ service.on_executed # <<>>
    /\ service.on_before_send # <<>>
    /\ service.on_after_send # <<>>

\* the Hset of key k in table t, as execute handled it in this step
HsetStep(t, k, v) == last' = execute(new_hset(t, k, v), FALSE, db).last /\ db' = execute(new_hset(t, k, v), FALSE, db).db

\* one Hset step, and the Hget that would follow it
C19_HsetStep ==
    \A t \in WriteTables, k \in Keys, v \in StoreValues :
        HsetStep(t, k, v) =>
            /\ last'.computed.status = 200
            /\ last'.computed.values =
                  <<IF get(db, t, k).some THEN get(db, t, k).value ELSE NoValue>>
            /\ last'.computed.pairs = <<>>
            /\ t \in db'.cfs
            /\ Hget(new_hget(t, k), db', FALSE).res = FromValue(v)

\* C19: Hset(table, key, value) returns status 200 with exactly one value:
\* the default Value when the key was absent (creating the table if it did
\* not exist), otherwise the value stored before the call; after it,
\* Hget(table, key) returns status 200 with the value just written.
C19_HsetThenHget == [][C19_HsetStep]_vars

\* the message of the response names the Not found error
SaysNotFound(res) == \E i \in 1..Len(res.message) : res.message[i] = "Not found for table: "

\* an Hget or Hdel handled in this step, without a storage failure
LookupStep == last'.req.cmd \in {"Hget", "Hdel"} /\ ~last'.fault

\* one Hget or Hdel step, on an absent and on a present key
C20_NotFoundStep ==
    LookupStep =>
        LET t   == last'.req.table
            k   == last'.req.key
            was == get(db, t, k)
            res == last'.computed
        IN  /\ ~was.some =>
                  /\ res.status = 404
                  /\ SaysNotFound(res)
                  /\ res.values = <<>> /\ res.pairs = <<>>
                  /\ db' = db
            /\ (was.some /\ last'.req.cmd = "Hdel") =>
                  /\ res = FromValue(was.value)
                  /\ ~contains(db', t, k)
                  /\ get(db', t, k) = None
                  /\ db' = delete_cf(db, t, k)

\* C20: Hget and Hdel on a key that is absent (in an existing or a
\* never-written table) return status 404 with a message containing "Not
\* found" and empty values and pairs, and leave the storage unchanged (no
\* key removed, no table created); Hdel on a present key returns status
\* 200 with the removed value and the key is absent afterwards.
C20_NotFound == [][C20_NotFoundStep]_vars

\* Hdel of a key of the never-written table t2 answered 404 "Not found"
\* while t1 holds a key: t2 was not created, t1 kept its key
C20_Witness ==
    /\ last.req = new_hdel("t2", "k")
    /\ last.computed = FromKvError(NotFound("t2", "k"))
    /\ last.computed.status = 404
    /\ db.cfs = {"t1"}
    /\ contains(db, "t1", "k")

\* Hdel of a present key answered 200 with the stored value, the key gone
\* and its table still there
C20_WitnessRemoved ==
    /\ last.req = new_hdel("t1", "k")
    /\ last.computed = FromValue(A)
    /\ db.cfs = {"t1"}
    /\ ~contains(db, "t1", "k")

\* ------------------------------------------ claims on the command handlers
\* the pairs of a pairs list that carry the key k
PairsOf(ps, k) == LET HasKey(p) == p.key = k IN SelectSeq(ps, HasKey)

\* what Hgetall answers for table t on the store S
AllOf(S, t) == Hgetall(new_hgetall(t), S, FALSE).res

\* the value the request wrote to key k last, if it wrote to it
Written(req, k) ==
    IF req.cmd = "Hset" /\ req.has_pair /\ req.key = k THEN Some(req.value)
    ELSE IF req.cmd = "Hmset" /\ PairsOf(req.pairs, k) # <<>>
    THEN Some(PairsOf(req.pairs, k)[Len(PairsOf(req.pairs, k))].value)
    ELSE None

\* the request removed key k
Removed(req, k) ==
    \/ req.cmd = "Hdel" /\ req.key = k
    \/ req.cmd = "Hmdel" /\ \E i \in 1..Len(req.keys) : req.keys[i] = k

\* one served step: a write or a removal changes what Hgetall shows for
\* its keys and nothing else; an Hgetall answers with the pairs present
C21_HgetallStep ==
    (last'.route = "unary" /\ ~last'.fault) =>
        LET req == last'.req
        IN  /\ req.cmd \in {"Hset", "Hmset", "Hdel", "Hmdel"} =>
                \A t \in Tables, k \in Keys :
                    PairsOf(AllOf(db', t).pairs, k) =
                        IF t = req.table /\ Written(req, k).some
                        THEN <<Kvpair(k, Written(req, k).value)>>
                        ELSE IF t = req.table /\ Removed(req, k) THEN <<>>
                        ELSE PairsOf(AllOf(db, t).pairs, k)
            /\ req.cmd = "Hgetall" =>
                /\ last'.computed = AllOf(db, req.table)
                /\ last'.computed.status = 200
                /\ last'.computed.values = <<>>
                /\ \A k \in Keys :
                      Len(PairsOf(last'.computed.pairs, k)) =
                          IF contains(db, req.table, k) THEN 1 ELSE 0
                /\ req.table \notin db.cfs => last'.computed.pairs = <<>>
                /\ db' = db

\* C21: after any sequence of Hset, Hmset, Hdel and Hmdel commands,
\* Hgetall(table) returns status 200 with exactly one pair per key present
\* in the table, each with the value most recently written to that key, and
\* no values; for a table never written it returns status 200 with no pairs.
C21_HgetallShowsWrites == [][C21_HgetallStep]_vars

\* the values an Hmget of the keys ks is to return on the store S: what
\* the store holds for each key, the default value for an absent one
StoredOrDefault(S, t, ks) ==
    [i \in 1..Len(ks) |-> IF contains(S, t, ks[i]) THEN FromBytes(S.data[t][ks[i]].data)
                          ELSE NoValue]

\* CommandService::execute of the request's variant, called on the handler
CommandService_execute(req, S, f) ==
    CASE req.cmd = "Hget"    -> Hget(req, S, f)
      [] req.cmd = "Hgetall" -> Hgetall(req, S, f)
      [] req.cmd = "Hset"    -> Hset(req, S, f)
      [] req.cmd = "Hmget"   -> Hmget(req, S, f)
      [] req.cmd = "Hmset"   -> Hmset(req, S, f)
      [] req.cmd = "Hdel"    -> Hdel(req, S, f)
      [] req.cmd = "Hmdel"   -> Hmdel(req, S, f)
      [] req.cmd = "Hexist"  -> Hexist(req, S, f)
      [] OTHER               -> Hmexist(req, S, f)

\* one Hmget submitted to the service, and the same Hmget on the handler
C22_HmgetStep ==
    (last'.req.cmd = "Hmget" /\ ~last'.fault) =>
        LET req  == last'.req
            want == FromValues(StoredOrDefault(db, req.table, req.keys))
        IN  /\ CommandService_execute(req, db, FALSE) = Returns(db, want)
            /\ want.status = 200
            /\ Len(want.values) = Len(req.keys)
            /\ last'.route = "unary"
            /\ last'.computed = want
            /\ db' = db

\* C22: Hmget(table, keys) returns status 200 with a values list as long as
\* keys whose i-th element is the stored value of the i-th key, or the
\* default Value when the key or the table is absent, both when the handler
\* is called directly and when the request goes through Service::execute.
C22_HmgetBothWays == [][C22_HmgetStep]_vars

\* a table that was never written has no column family
NeverWritten(S, t) == t \notin S.cfs

\* the read-side operations on the tables never written, in this state
C23_ReadsOfMissing ==
    \A t \in Tables, k \in Keys :
        NeverWritten(db, t) =>
            /\ get(db, t, k) = None
            /\ ~contains(db, t, k)
            /\ del(db, t, k) = [db |-> db, res |-> None]
            /\ get_all(db, t) = <<>>
            /\ ~contains(del(db, t, k).db, t, k)
            /\ NeverWritten(del(db, t, k).db, t)

\* one read-side command on a table never written, as the service ran it
C23_ReadStep ==
    (~last'.fault /\ last'.req.cmd \in {"Hget", "Hexist", "Hdel", "Hgetall"}
       /\ NeverWritten(db, last'.req.table)) =>
        /\ db' = db
        /\ NeverWritten(db', last'.req.table)
        /\ \A k \in Keys : ~contains(db', last'.req.table, k)
        /\ last'.req.cmd = "Hget" => last'.computed = FromKvError(NotFound(last'.req.table, last'.req.key))
        /\ last'.req.cmd = "Hdel" => last'.computed = FromKvError(NotFound(last'.req.table, last'.req.key))
        /\ last'.req.cmd = "Hexist" => last'.computed = FromValue(BoolValue(FALSE))
        /\ last'.req.cmd = "Hgetall" => last'.computed = FromPairs(<<>>)

\* C23: the read-side storage operations on a table that was never written
\* return the empty result without error and without creating the table:
\* get None, contains false, del None, get_all and get_iter an empty
\* sequence, and a contains on that table afterwards is still false.
C23_MissingTableReads == [][C23_ReadsOfMissing /\ C23_ReadStep]_vars

\* after a write to t1, an Hgetall of the table t2 never written answered
\* with no pairs, and t2 still has no column family
C23_Witness ==
    /\ last.req = new_hgetall("t2")
    /\ last.route = "unary"
    /\ last.computed = FromPairs(<<>>)
    /\ db.cfs = {"t1"}
    /\ \E k \in Keys : contains(db, "t1", k)
    /\ \A k \in Keys : ~contains(db, "t2", k)

\* the request calls the storage at least once
CallsStorage(req) ==
    \/ req.cmd \in {"Hget", "Hgetall", "Hdel", "Hexist"}
    \/ req.cmd = "Hset" /\ req.has_pair
    \/ req.cmd \in {"Hmget", "Hmdel", "Hmexist"} /\ req.keys # <<>>
    \/ req.cmd = "Hmset" /\ req.pairs # <<>>

\* one unary command whose storage calls failed
C24_FailureStep ==
    (last'.fault /\ last'.req.cmd \in UnaryCommands /\ CallsStorage(last'.req)) =>
        /\ ~CommandService_execute(last'.req, db, TRUE).panic
        /\ CommandService_execute(last'.req, db, TRUE).res.status = StatusOf(StorageFailure)
        /\ last'.route = "unary"
        /\ last'.computed.status = StatusOf(StorageFailure)

\* C24: for each of the nine unary commands, when the storage backend
\* returns an error for an operation the command performs, the command
\* returns, without panicking, a response with the error's status (500 for
\* storage or internal errors) and never a status-200 response.
C24_StorageErrorsSurface == [][C24_FailureStep]_vars

\* a request without request data, or an Hset without its pair
Malformed(req) == req.cmd = "none" \/ (req.cmd = "Hset" /\ ~req.has_pair)

C25_MalformedStep ==
    Malformed(last'.req) =>
        /\ last'.route = "unary"
        /\ last'.computed.status = StatusOf(InvalidCommand("Request has no data"))
        /\ last'.computed.values = <<>>
        /\ db' = db

\* C25: a malformed request, one with no request data or an Hset whose
\* pair is absent, is answered with a status-400 invalid-command response
\* and leaves the storage unchanged.
C25_MalformedIs400 == [][C25_MalformedStep]_vars

\* ------------------------------------------------ claims on ProstStream
\* C26: on a message-typed stream, when the peer closes its sending half at
\* a frame boundary, receiving yields end-of-stream and not an error item,
\* and every item yielded before that is a fully decoded message.
C26_EofEndsStream ==
    \A i \in 1..Len(yielded) :
        yielded[i].eof =>
            /\ yielded[i].kind = "end"
            /\ \A j \in 1..(i - 1) : yielded[j].kind = "msg"

\* the messages among the items yielded
Decoded == LET IsMsg(it) == it.kind = "msg" IN SelectSeq(yielded, IsMsg)

\* C27: receiving on a ProstStream loses no bytes: whatever frames the peer
\* wrote and wherever the read of the inner stream was Pending or short,
\* inside the header or inside the payload, the messages poll_next yields
\* are exactly the messages sent, in the same order.
C27_NoBytesLost ==
    /\ \A i \in 1..Len(yielded) :
          ~yielded[i].eof =>
              /\ i <= Len(peer.sent)
              /\ yielded[i] = Item("msg", peer.sent[i], FALSE)
    /\ (peer.flight = <<>> /\ stream.inb = <<>>) => Len(Decoded) = Len(peer.sent)

\* C28: sending on a ProstStream writes whole frames in order: whatever the
\* start_send and poll_flush calls and the partial writes and Pending
\* results of the inner stream, the bytes the inner stream accepted are the
\* concatenation of the encoded frames in send order, 0 <= written <=
\* wbuf.len() in every state, and when poll_flush returns Ready(Ok) the
\* write buffer is empty and written is 0.
C28_WholeFramesInOrder ==
    /\ stream.out \o SubSeq(wbuf, written + 1, Len(wbuf)) = Frames(sink.sends)
    /\ 0 <= written /\ written <= Len(wbuf)
    /\ (sink.last \in {"poll_flush", "poll_close"} /\ sink.ret = "ok") =>
          /\ wbuf = <<>>
          /\ written = 0
          /\ stream.out = Frames(sink.sends)

\* a second message was sent after a flush that stopped inside the first
\* frame: part of that frame is written, the rest and the second frame wait
C28_Witness ==
    /\ sink.last = "start_send"
    /\ Len(sink.sends) = 2
    /\ written > 0 /\ written < Len(encode_frame(sink.sends[1]))
    /\ Len(stream.out) = written
    /\ Len(wbuf) = Len(Frames(sink.sends))

\* ------------------------------------------------- claims on NoiseStream
\* C29: a NoiseStream has the read and write semantics of the stream it
\* wraps: whatever the sizes of the writes on one end and the behaviour of
\* the inner stream (poll_write Pending or accepting part of the buffer,
\* reads that coalesce several writes or split one), the plaintext read on
\* the other end is the plaintext written, in order, with nothing lost,
\* duplicated or rejected.
C29_SameBytes ==
    /\ plain.failed = "none"
    /\ Len(plain.read) <= Len(plain.written)
    /\ plain.read = SubSeq(plain.written, 1, Len(plain.read))
    /\ (inner = <<>> /\ read_buffer = <<>>) => plain.read = plain.written

\* ------------------------------------------------------------------ C34
\* every interceptor of the two chains execute notifies returns None
AllReturnNone ==
    /\ \A i \in DOMAIN service.on_executed : service.on_executed[i] # "some"
    /\ \A i \in DOMAIN service.on_before_send : service.on_before_send[i] # "some"

\* a whole chain, run in registration order, no interceptor returning Some
WholeChain(chain, fs) ==
    [j \in 1..Len(fs) |-> [chain |-> chain, i |-> j, some |-> FALSE]]

\* the response of the command with the mutations of the on_before_send chain
Mutated(res, fs) ==
    IF \E i \in DOMAIN fs : fs[i] = "created" THEN [res EXCEPT !.status = 201] ELSE res

\* C34: for a unary command whose interceptors all return None, execute runs
\* every on_executed interceptor in registration order, then every
\* on_before_send interceptor in registration order, and yields one response:
\* the response of the command with the mutations of on_before_send (status
\* 201 for 200), the other fields as computed.
C34_AllInterceptorsRun ==
    (last.req.cmd \in UnaryCommands /\ AllReturnNone) =>
        /\ last.route = "unary"
        /\ last.ran = WholeChain("on_executed", service.on_executed)
                      \o WholeChain("on_before_send", service.on_before_send)
        /\ last.out = <<Mutated(last.computed, service.on_before_send)>>

\* ------------------------------------------------------------------ C35
\* the positions before i of a list of pairs that hold the key of the i-th
EarlierSame(ps, i) == {j \in 1..(i - 1) : ps[j].key = ps[i].key}

Latest(js) == CHOOSE j \in js : \A n \in js : n <= j

\* what the store S holds under the key, as the store reads it, or default
PriorOrDefault(S, t, k) == IF get(S, t, k).some THEN get(S, t, k).value ELSE NoValue

\* one served Hmset, Hmdel or Hmexist: status 200, one element per input in
\* request order; a repeated key of an Hmset has the value of the pair
\* before it as prior value
C35_MultiStep ==
    (last'.route = "unary" /\ ~last'.fault
       /\ last'.req.cmd \in {"Hmset", "Hmdel", "Hmexist"}) =>
        LET req == last'.req
            res == last'.computed
            n   == IF req.cmd = "Hmset" THEN Len(req.pairs) ELSE Len(req.keys)
        IN  /\ res.status = 200
            /\ Len(res.values) = n
            /\ req.cmd = "Hmset" =>
                \A i \in 1..n :
                    res.values[i] =
                        IF EarlierSame(req.pairs, i) # {}
                        THEN req.pairs[Latest(EarlierSame(req.pairs, i))].value
                        ELSE PriorOrDefault(db, req.table, req.pairs[i].key)
            /\ req.cmd = "Hmdel" =>
                \A i \in 1..n :
                    get(db, req.table, req.keys[i]).some =>
                        res.values[i] = get(db, req.table, req.keys[i]).value
            /\ req.cmd = "Hmexist" =>
                \A i \in 1..n :
                    res.values[i] = BoolValue(contains(db, req.table, req.keys[i]))

\* C35: Hmset, Hmdel and Hmexist process their input in request order and
\* return status 200 with one value per input, the i-th the result for the
\* i-th input (prior value or default, removed value, presence); a key that
\* occurs twice in one Hmset gets, at its second occurrence, the value
\* written by its first occurrence as prior value.
C35_MultiInOrder == [][C35_MultiStep]_vars

\* ------------------------------------------------------------------ C37
\* CommandService::execute of the variant of a unary request
Handler(req, S, f) ==
    CASE req.cmd = "Hget"    -> Hget(req, S, f)
      [] req.cmd = "Hgetall" -> Hgetall(req, S, f)
      [] req.cmd = "Hset"    -> Hset(req, S, f)
      [] req.cmd = "Hmget"   -> Hmget(req, S, f)
      [] req.cmd = "Hmset"   -> Hmset(req, S, f)
      [] req.cmd = "Hdel"    -> Hdel(req, S, f)
      [] req.cmd = "Hmdel"   -> Hmdel(req, S, f)
      [] req.cmd = "Hexist"  -> Hexist(req, S, f)
      [] OTHER               -> Hmexist(req, S, f)

\* C37: no response of a unary command handler is the all-default
\* CommandResponse, whatever the store holds and whatever the arguments
\* (empty lists of keys or pairs, a table never written): its status is not
\* zero, so execute never takes an executed unary command for a streaming one.
C37_NeverTheSentinel ==
    /\ \A req \in Requests, f \in BOOLEAN :
          (req.cmd \in UnaryCommands /\ ~Handler(req, db, f).panic) =>
              /\ Handler(req, db, f).res # DefaultResponse
              /\ Handler(req, db, f).res.status # 0
    /\ (last.executed /\ last.route # "panic") =>
          (~IsSentinel(last.computed) /\ last.route = "unary")

C37_Witness ==
    /\ db # EmptyDb
    /\ last.route = "unary"
    /\ last.req = new_hmset("t1", <<>>)
    /\ last.computed = [DefaultResponse EXCEPT !.status = 200]
    /\ Hmget(new_hmget("t2", <<>>), db, FALSE).res.values = <<>>
    /\ Hset(HsetNoPair("t1"), db, FALSE).res.status = 200

\* ------------------------------------------------------------------ C36
\* C36: of two del calls that run concurrently on the same present key,
\* exactly one returns the stored value and the other None: the value one
\* write stored is never returned as the removed value by two deletes.
C36_OneDelWins ==
    \A d \in Ops, e \in Ops :
        ( /\ d # e /\ IsDel(d) /\ IsDel(e) /\ SameKey(d, e)
          /\ op[d].pc = "done" /\ op[e].pc = "done"
          /\ op[d].res.some /\ op[e].res.some ) =>
            op[d].src # op[e].src

\* ------------------------------------------------------------------ C39
\* C39: every call of ProstStream::poll_flush returns (Pending, an error
\* or Ready(Ok)) after finitely many poll_write calls, also when the inner
\* poll_write reports 0 bytes accepted while unwritten bytes remain.
C39_FlushReturns == (sink.ret = "running") ~> (sink.ret # "running")

\* ------------------------------------------------------------------ C31
\* C31: a handshake that fails on one connection ends that connection only:
\* the server keeps listening and the connections that arrive afterwards
\* are accepted and served, none is turned away or cut off.
C31_FailureIsLocal ==
    (\E c \in Clients : conn[c].state = "failed") =>
        /\ main.pc # "exited"
        /\ \A d \in Clients : conn[d].state \notin {"refused", "closed"}

\* ------------------------------------------------------------------ C38
\* C38: a client that connects and then sends nothing during the handshake
\* does not keep the server from accepting and serving the clients that
\* connect after it: while the server runs, a client that completes its
\* handshake is served in the end.
C38_StallDoesNotBlock ==
    \A c \in Clients :
        (conn[c].state = "queued" /\ conn[c].does = "good") ~>
            (conn[c].state = "served" \/ main.pc = "exited")

\* ------------------------------------------------------------------ C32
\* what an Hget of the key answers when the last write to it is visible
Visible(k) ==
    IF clones.wrote[k].some THEN FromValue(StoredValue(clones.wrote[k].value))
    ELSE FromKvError(NotFound("t1", k))

\* C32: all clones of a Service share one storage and one broadcaster: a
\* write executed through one clone is visible to a read through any
\* other clone, and a Publish executed through one clone is delivered to
\* the subscribers that subscribed through another clone.
C32_ClonesShare ==
    /\ \A h \in Handles, k \in Keys :
          dispatch(new_hget("t1", k), clones.stores[clones.handles[h].store], FALSE).res
              = Visible(k)
    /\ \A s \in Subscribers : clones.inbox[s] = clones.owed[s]

C32_Witness ==
    /\ clones.read.via # 0
    /\ clones.wrote[clones.read.key].some
    /\ clones.wrote[clones.read.key].via # clones.read.via
    /\ clones.read.res = Visible(clones.read.key)
    /\ \E s \in Subscribers :
          /\ clones.inbox[s] # <<>>
          /\ clones.inbox[s][1] # clones.via[s]

\* ------------------------------------------------------------------ C33
\* C33: once the service is dropped the mailboxes' senders are dropped and
\* every subscribe stream still open yields the responses already queued
\* and then ends; no stream stays open forever after the service is gone.
C33_StreamsEnd ==
    /\ [](\A id \in Ids : rx[id] = "ended" => mailbox[id] = <<>>)
    /\ \A id \in Ids : (~alive /\ rx[id] = "open") ~> (rx[id] = "ended")

C33_Witness ==
    /\ ~alive
    /\ subscriptions = {}
    /\ \E id \in Ids : rx[id] = "ended" /\ Len(received[id]) >= 2
    /\ \A id \in Ids : rx[id] # "open"

====
